---- MODULE Spec2Model ----
(***************************************************************************)
(* Model of social-manager's app.js: the provider registry, the search     *)
(* pipeline (runSearch, createProvider.search, fallbackMock,               *)
(* normalizePosts) and the publish pipeline (createProvider.post and the   *)
(* four provider clients).                                                 *)
(*                                                                         *)
(* JavaScript runs one task at a time.  An async function runs without     *)
(* interruption up to an await of a network response, so an action of the  *)
(* model is one such stretch: an event handler up to its first fetch, or   *)
(* the continuation that a response resumes, up to the next fetch.         *)
(***************************************************************************)
EXTENDS Integers, Sequences, FiniteSets, TLC

VARIABLES
  cfg,                \* config(): provider id -> names of the credentials set
  selectedProviders,  \* state.selectedProviders
  searchInput,        \* el("searchInput").value
  feed,               \* state.feed
  feedEl,             \* what the feed element shows
  status,             \* statusText.textContent
  runs,               \* the runSearch calls awaiting Promise.all, by issue number
  issued,             \* number of runSearch calls so far
  lastWrite,          \* the runSearch call that last assigned state.feed
  events,             \* number of user events handled since the page loaded
  call,               \* the provider.post call in progress, or its outcome
  session,            \* BlueskyClient.session
  now,                \* Date.now()
  scall,              \* the client.search call followed step by step, or its outcome
  selectedMessage,    \* state.selectedMessage
  drafting,           \* a draftReply call awaits the model's answer
  replyText,          \* replyText.value
  llmToken,           \* window.githubModelsToken || config().llmToken is set
  store,              \* localStorage, and the warnings shown about it
  sw,                 \* the service worker: its cache, fetches and responses
  ret,                \* a function of the program applied to an input
  socialConfig,       \* the host set window.socialConfig before the page loaded
  timer               \* the timeout debounce has set for the search input

vars == <<cfg, selectedProviders, searchInput, feed, feedEl, status, runs,
          issued, lastWrite, events, call, session, now, scall, selectedMessage,
          drafting, replyText, llmToken, store, sw, ret, socialConfig, timer>>

\* what the searching and publishing handlers leave alone
auxVars == <<replyText, llmToken, store, sw, ret, socialConfig, timer>>

(***************************************************************************)
(* Bounds of the model.                                                    *)
(***************************************************************************)
MaxEvents == 2        \* user events after a page load with at most one provider configured
MaxMultiEvents == 1   \* user events after a page load with two providers configured
MaxLive == 1          \* raw posts one successful adapter search returns
MaxPostCalls == 2     \* provider.post calls in one behaviour
MaxSearchCalls == 1   \* client.search calls followed request by request
MaxTicks == 3         \* steps of the clock
MaxReplyEvents == 2   \* user events after a page load, replying included

(***************************************************************************)
(* The provider registry.                                                  *)
(***************************************************************************)
providers == <<"twitter", "bluesky", "linkedin", "threads">>

ProviderIds == {providers[i] : i \in 1..Len(providers)}

providerClients == {"twitter", "bluesky", "linkedin", "threads"}

Fields(id) ==
  CASE id = "twitter"  -> {"bearerToken"}
    [] id = "bluesky"  -> {"handle", "appPassword"}
    [] id = "linkedin" -> {"accessToken"}
    [] id = "threads"  -> {"accessToken"}
    [] OTHER           -> {}

Configs == {c \in [ProviderIds -> SUBSET {"bearerToken", "handle", "appPassword", "accessToken"}] :
              \A id \in ProviderIds : c[id] \subseteq Fields(id)}

\* The stored configurations the page is loaded with: each provider's
\* credentials complete or absent, for the providers of one of the sets in S.
StoredConfigs(S) ==
  {c \in Configs : /\ {id \in ProviderIds : c[id] # {}} \in S
                   /\ \A id \in ProviderIds : c[id] \in {{}, Fields(id)}}

SingleLoads == {{}} \cup {{id} : id \in ProviderIds}

MultiLoads == {{"twitter", "bluesky"}, {"twitter", "threads"}}

isConfigured(c, id) ==
  CASE id = "twitter"  -> "bearerToken" \in c[id]
    [] id = "bluesky"  -> "handle" \in c[id] /\ "appPassword" \in c[id]
    [] id = "linkedin" -> "accessToken" \in c[id]
    [] id = "threads"  -> "accessToken" \in c[id]
    [] OTHER           -> FALSE

(***************************************************************************)
(* Queries and the demo catalogue.  A text is modelled by the lower-case   *)
(* words it holds; includes() of the lower-cased query is membership.      *)
(***************************************************************************)
Queries == {"", "Hiring"}

toLowerCase(q) == IF q = "Hiring" THEN "hiring" ELSE q

flair(id) ==
  CASE id = "twitter"  -> {"spotted", "x"}
    [] id = "bluesky"  -> {"over", "sky"}
    [] id = "linkedin" -> {"on", "linkedin"}
    [] id = "threads"  -> {"via", "threads"}
    [] OTHER           -> {}

\* A url is modelled by the part before its last path segments, the segment
\* that precedes the tail, and the tail as a sequence of pieces, each a run of
\* digits or a run of other characters: "https://example.com/post/1" is
\* Url("https://example.com", "post", <<"1">>).
Url(base, seg, tail) == [base |-> base, seg |-> seg, tail |-> tail]

\* url: undefined
NoUrl == Url("", "", <<>>)

shared ==
  << [author |-> "Alex Kim", handle |-> "alexk", time |-> "2h",
      words |-> {"shipping", "release", "notes"},
      url |-> Url("https://example.com", "post", <<"1">>)],
     [author |-> "Priya N.", handle |-> "priyan", time |-> "3h",
      words |-> {"hiring", "staff", "frontend"},
      url |-> Url("https://example.com", "post", <<"2">>)],
     [author |-> "DevTools Daily", handle |-> "devtools", time |-> "6h",
      words |-> {"threads", "caching", "postmortem"},
      url |-> Url("https://example.com", "post", <<"3">>)] >>

mockPosts(id) ==
  [i \in 1..Len(shared) |->
     [shared[i] EXCEPT !.words = @ \cup flair(id)]]

\* A post of the feed.  isDemo = FALSE stands for the property being absent,
\* uri = "", cid = "", conversationId = "", handle = "" and time = "" for
\* undefined.
Post(pid, provider, author, words, url, uri, cid, demo) ==
  [id |-> pid, provider |-> provider, author |-> author, handle |-> "",
   words |-> words, time |-> "", url |-> url, uri |-> uri, cid |-> cid,
   conversationId |-> "", isDemo |-> demo]

RECURSIVE Filter(_, _)
Filter(s, q) ==
  IF s = <<>> THEN <<>>
  ELSE IF q = "" \/ toLowerCase(q) \in Head(s).words
       THEN <<Head(s)>> \o Filter(Tail(s), q)
       ELSE Filter(Tail(s), q)

fallbackMock(id, query) ==
  LET filtered == Filter(mockPosts(id), query)
  IN [idx \in 1..Len(filtered) |->
        [Post(id \o "-" \o ToString(idx - 1), id, filtered[idx].author,
              filtered[idx].words, filtered[idx].url, "", "", FALSE)
           EXCEPT !.handle = filtered[idx].handle, !.time = filtered[idx].time]]

\* A raw item with every property undefined: "" for a string, {} for a text
\* (text, or body), NoUrl for an address (url, permalink or link).
NoRaw ==
  [id |-> "", author |-> "", user |-> "", username |-> "", handle |-> "",
   words |-> {}, body |-> {}, time |-> "", url |-> NoUrl, permalink |-> NoUrl,
   link |-> NoUrl, uri |-> "", cid |-> "", conversationId |-> ""]

\* a raw item as the clients' searches build it
Raw(id, author, words, url, uri, cid) ==
  [NoRaw EXCEPT !.id = id, !.author = author, !.handle = "live", !.words = words,
                !.time = "1h", !.url = url, !.uri = uri, !.cid = cid]

\* The raw items a client's search maps a response of n posts to.  The ids are
\* the remote service's: the (base + i)-th tweet, record, share or thread.  A
\* thread comes with a permalink, which ends in a short code, or without one.
RawItems(id, n, base, permalink) ==
  [i \in 1..n |->
     LET num == ToString(base + i)
     IN CASE id = "twitter" ->
               [Raw(num, "Live Author", {"live"},
                    Url("https://twitter.com/live", "status", <<num>>), "", "")
                  EXCEPT !.conversationId = num]
          [] id = "bluesky" ->
               Raw("at://did:plc:live/app.bsky.feed.post/" \o num \o "k",
                   "Live Author", {"live"},
                   Url("https://bsky.app/profile/live", "post", <<num, "k">>),
                   "at://did:plc:live/app.bsky.feed.post/" \o num \o "k",
                   "bafy" \o num)
          [] id = "linkedin" ->
               Raw("urn:li:share:" \o num, "Live Author", {"live"},
                   Url("https://linkedin.com/feed", "update", <<"urn:li:share:", num>>),
                   "", "")
          [] OTHER ->
               Raw(num, "Live Author", {"live"},
                   IF permalink
                   THEN Url("https://www.threads.net/@live", "post", <<"C", num>>)
                   ELSE Url("https://threads.net/@live", "post", <<num>>),
                   "", "")]

\* a || b with the left operand alone
OrLeft(a, b, falsy) == a

\* a || b, for values whose falsy form is falsy
Or(a, b, falsy) == IF a = falsy THEN b ELSE a

\* url: "#"
HashUrl == Url("#", "", <<>>)

\* normalizePosts leaving out the items that have no id
normalizePostsIdentified(items, provider) ==
  LET kept == SelectSeq(items, LAMBDA item : item.id # "")
  IN [idx \in 1..Len(kept) |->
        [Post(kept[idx].id, provider, kept[idx].author, kept[idx].words,
              kept[idx].url, kept[idx].uri, kept[idx].cid, FALSE)
           EXCEPT !.handle = kept[idx].handle, !.time = kept[idx].time,
                  !.conversationId = kept[idx].conversationId]]

normalizePosts(items, provider) ==
  [idx \in 1..Len(items) |->
     LET item == items[idx]
     IN [Post(Or(item.id,
                 provider \o "-" \o ToString(idx - 1) \o "-" \o ToString(now), ""),
              provider,
              Or(item.author, Or(item.user, Or(item.username, "Unknown", ""), ""), ""),
              Or(item.words, Or(item.body, {}, {}), {}),
              Or(item.url, Or(item.permalink, Or(item.link, HashUrl, NoUrl), NoUrl),
                 NoUrl),
              item.uri, item.cid, FALSE)
           EXCEPT !.handle = Or(item.handle,
                                Or(item.username, Or(item.user, provider, ""), ""), ""),
                  !.time = Or(item.time, "just now", ""),
                  !.conversationId = item.conversationId]]

(***************************************************************************)
(* createProvider(id).search and the callback runSearch maps over the      *)
(* active providers.                                                       *)
(***************************************************************************)
\* Outcome of client.search: it threw (ok = FALSE) or it returned n raw items.
Threw == [ok |-> FALSE, n |-> 0, base |-> 0, permalink |-> FALSE]

Found(n, base, permalink) == [ok |-> TRUE, n |-> n, base |-> base, permalink |-> permalink]

\* where the remote ids of a response start
Bases == {0, 1}

SearchOutcomes ==
  {Threw, Found(0, 0, FALSE)}
    \cup {Found(n, base, pl) : n \in 1..MaxLive, base \in Bases, pl \in BOOLEAN}

\* The outcomes told apart for a provider: a Threads response holds the
\* threads 1..n or 2..n+1, with or without permalinks; another service's
\* response holds its items 1..n.
OutcomesOf(id) ==
  IF id = "threads" THEN SearchOutcomes
  ELSE {o \in SearchOutcomes : o.base = 0 /\ ~o.permalink}

providerSearch(id, query, outcome) ==
  IF id \notin providerClients THEN fallbackMock(id, query)
  ELSE IF ~outcome.ok THEN fallbackMock(id, query)
  ELSE normalizePosts(RawItems(id, outcome.n, outcome.base, outcome.permalink), id)

\* posts.forEach((post) => post.isDemo = true)
markDemo(posts) ==
  [i \in 1..Len(posts) |-> [posts[i] EXCEPT !.isDemo = TRUE]]

\* tagPosts without the tagging
tagPostsNever(posts, configuredNow) == posts

\* "Tag posts from unconfigured providers"
tagPosts(posts, configuredNow) ==
  IF ~configuredNow THEN markDemo(posts) ELSE posts

IdleSlot == [st |-> "idle", cfgAtStart |-> FALSE, how |-> "none", posts |-> <<>>]

PendingSlot == [st |-> "pending", cfgAtStart |-> TRUE, how |-> "none", posts |-> <<>>]

SettledSlot(wasConfigured, how, posts) ==
  [st |-> "settled", cfgAtStart |-> wasConfigured, how |-> how, posts |-> posts]

\* The callback's result for provider id once client.search has settled.
settle(c, id, query, outcome, wasConfigured) ==
  SettledSlot(wasConfigured,
              IF outcome.ok THEN "live" ELSE "fallback",
              tagPosts(providerSearch(id, query, outcome), isConfigured(c, id)))

(***************************************************************************)
(* The tail of runSearch: flat, sort, renderFeed, status.                  *)
(***************************************************************************)
RECURSIVE flatFrom(_, _)
flatFrom(run, i) ==
  IF i > Len(providers) THEN <<>>
  ELSE (IF providers[i] \in run.active THEN run.slots[providers[i]].posts ELSE <<>>)
       \o flatFrom(run, i + 1)

\* results.flat(): the active providers' posts in registry order
flat(run) == flatFrom(run, 1)

\* compareDemo with the two results exchanged
compareDemoSwapped(a, b) == IF a.isDemo = b.isDemo THEN 0 ELSE IF a.isDemo THEN -1 ELSE 1

\* (a, b) => (a.isDemo === b.isDemo ? 0 : a.isDemo ? 1 : -1)
compareDemo(a, b) == IF a.isDemo = b.isDemo THEN 0 ELSE IF a.isDemo THEN 1 ELSE -1

\* Array.prototype.sort is a stable sort: a new element goes behind every
\* element that does not compare greater than it.
RECURSIVE insertSorted(_, _)
insertSorted(s, x) ==
  IF s = <<>> THEN <<x>>
  ELSE IF compareDemo(s[Len(s)], x) > 0
       THEN Append(insertSorted(SubSeq(s, 1, Len(s) - 1), x), s[Len(s)])
       ELSE Append(s, x)

RECURSIVE sortFrom(_, _)
sortFrom(done, rest) ==
  IF rest = <<>> THEN done ELSE sortFrom(insertSorted(done, Head(rest)), Tail(rest))

sortFeed(s) == sortFrom(<<>>, s)

IsDemo(p) == p.isDemo

NotDemo(p) == ~p.isDemo

\* no error message
NoError == [text |-> "", status |-> 0]

\* statusText.textContent: the kind of message, the counts and names it
\* carries, and the error message it shows, if it shows one
Status(kind, live, demo, who) ==
  [kind |-> kind, live |-> live, demo |-> demo, who |-> who, error |-> NoError]

\* searchStatus reporting every post as live
searchStatusAllLive(f) == Status("Loaded", Len(f), 0, {})

searchStatus(f) ==
  LET realCount == Len(SelectSeq(f, NotDemo))
      demoCount == Len(SelectSeq(f, IsDemo))
  IN IF realCount > 0 /\ demoCount > 0 THEN Status("live+demo", realCount, demoCount, {})
     ELSE IF realCount > 0 THEN Status("Loaded", realCount, 0, {})
     ELSE Status("demo posts", 0, demoCount, {})

renderFeed(f) ==
  IF Len(f) = 0 THEN [msg |-> "No results yet", cards |-> <<>>]
  ELSE [msg |-> "", cards |-> f]

\* Promise.race in place of Promise.all: resume at the first settled callback
anySettled(run) == \E id \in run.active : run.slots[id].st = "settled"

allSettled(run) == \A id \in run.active : run.slots[id].st = "settled"

Engine(f, fe, s, r, n, w) ==
  [feed |-> f, feedEl |-> fe, status |-> s, runs |-> r, issued |-> n, lastWrite |-> w]

\* What follows the await of Promise.all in call k of runSearch.
finishSearch(k, run, e) ==
  LET sorted == sortFeed(flat(run))
  IN Engine(sorted, renderFeed(sorted), searchStatus(sorted),
            [j \in DOMAIN e.runs \ {k} |-> e.runs[j]], e.issued,
            [id |-> k, run |-> run, flat |-> flat(run), issuedThen |-> e.issued])

\* A callback's promise settles; Promise.all resumes runSearch after the last.
afterSettle(k, run, e) ==
  IF allSettled(run) THEN finishSearch(k, run, e)
  ELSE Engine(e.feed, e.feedEl, e.status,
              [j \in DOMAIN e.runs \cup {k} |-> IF j = k THEN run ELSE e.runs[j]],
              e.issued, e.lastWrite)

\* runSearch(query) up to its await.  A client whose credentials are missing
\* throws before any fetch, so its callback settles within the same task.
runSearch(c, sel, query, e) ==
  LET active == {id \in ProviderIds : id \in sel}
      k == e.issued + 1
      configured == {id \in active : isConfigured(c, id)}
      started == Status(IF configured # {} THEN "Searching" ELSE "Using demo data",
                        0, 0, configured)
      run == [query |-> query, active |-> active,
              slots |-> [id \in ProviderIds |->
                           IF id \notin active THEN IdleSlot
                           ELSE IF isConfigured(c, id) THEN PendingSlot
                           ELSE settle(c, id, query, Threw, FALSE)]]
  IN IF active = {}
     THEN Engine(e.feed, [msg |-> "Choose at least one provider", cards |-> <<>>],
                 Status("Idle", 0, 0, {}), e.runs, k, e.lastWrite)
     ELSE afterSettle(k, run, Engine(e.feed, e.feedEl, started, e.runs, k, e.lastWrite))

(***************************************************************************)
(* Publishing.  A stretch of client.post ends by sending a request         *)
(* (fetch), by returning a result, or by throwing.                         *)
(***************************************************************************)
NoResult == [ok |-> FALSE, error |-> NoError, url |-> ""]

Ok(url) == [ok |-> TRUE, error |-> NoError, url |-> url]

Failure(text, st) == [ok |-> FALSE, error |-> [text |-> text, status |-> st], url |-> ""]

\* no reply reference in a request
NoReply == ""

\* a request, with the reply reference its body or parameters carry
FetchWith(req, reply) ==
  [kind |-> "fetch", req |-> req, reply |-> reply, result |-> NoResult, error |-> NoError]

Fetch(req) == FetchWith(req, NoReply)

Return(result) == [kind |-> "return", req |-> "", result |-> result, error |-> NoError]

Throw(text, st) ==
  [kind |-> "throw", req |-> "", result |-> NoResult, error |-> [text |-> text, status |-> st]]

\* What a fetch settles with: it rejects (a transport error), or it resolves
\* to a response with a status whose body parses (json) or does not.
Statuses == {200, 403, 500}

FetchOutcomes ==
  {[kind |-> "reject", status |-> 0, json |-> FALSE]}
    \cup {[kind |-> "response", status |-> st, json |-> TRUE] : st \in Statuses}
    \cup {[kind |-> "response", status |-> 200, json |-> FALSE]}

NoOutcome == [kind |-> "none", status |-> 0, json |-> FALSE]

\* res.ok
resOk(out) == out.kind = "response" /\ out.status >= 200 /\ out.status <= 299

\* await fetch(...) rejecting, or await res.json() rejecting
Rejects(out) ==
  IF out.kind = "reject" THEN Throw("Failed to fetch", 0)
  ELSE Throw("Unexpected token", 0)

\* The globals a client reads: config(), BlueskyClient.session, Date.now()
\* and state.selectedMessage.
Globals(c, sess, t, msg) ==
  [cfg |-> c, session |-> sess, now |-> t, selectedMessage |-> msg]

\* the pieces that are runs of digits
Numerals == {ToString(n) : n \in 0..99}

\* url.match(/<seg>\/(\d+)/): the digits captured, "" when there is no match
matchDigits(url, seg) ==
  IF url.seg = seg /\ url.tail # <<>> /\ Head(url.tail) \in Numerals
  THEN Head(url.tail)
  ELSE ""

\* if (inReplyTo) { const match = inReplyTo.match(/status\/(\d+)/); ... }
twitterReply(inReplyTo) ==
  IF inReplyTo # NoUrl THEN matchDigits(inReplyTo, "status") ELSE NoReply

\* threadsReply taking whatever follows "post/"
threadsReplyAnyTail(inReplyTo) ==
  IF inReplyTo # NoUrl /\ inReplyTo.seg = "post" /\ inReplyTo.tail # <<>>
  THEN Head(inReplyTo.tail)
  ELSE NoReply

\* if (inReplyTo) { const match = inReplyTo.match(/post\/(\d+)/); ... }
threadsReply(inReplyTo) ==
  IF inReplyTo # NoUrl THEN matchDigits(inReplyTo, "post") ELSE NoReply

\* if (inReplyTo && state.selectedMessage?.uri && state.selectedMessage?.cid)
blueskyReply(inReplyTo, msg) ==
  IF inReplyTo # NoUrl /\ msg.uri # "" /\ msg.cid # "" THEN msg.uri ELSE NoReply

\* twitterHeaders without the test of the bearer token
twitterHeadersAlways(c) == TRUE

\* TwitterClient.headers() returns headers, not null
twitterHeaders(c) == "bearerToken" \in c["twitter"]

TwitterPost(g, inReplyTo, at, out) ==
  CASE at = "start" ->
         IF ~twitterHeaders(g.cfg)
         THEN Return(Failure("Twitter not configured", 0))
         ELSE FetchWith("tweets", twitterReply(inReplyTo))
    [] at = "tweets" ->
         IF out.kind = "reject" THEN Rejects(out)
         ELSE IF ~resOk(out) THEN Return(Failure("Twitter post", out.status))
         ELSE IF ~out.json THEN Rejects(out)
         ELSE Return(Ok("https://twitter.com/i/status/"))

\* expiresAt: Date.now() + 3600_000
SessionTtl == 3600000

\* session: null
\* creds: the edition of the credentials the session was obtained with
NoSession == [set |-> FALSE, expiresAt |-> 0, creds |-> 0]

\* sessionValid without the comparison with expiresAt
sessionValidForever(sess, t) == sess.set

\* this.session && Date.now() < this.session.expiresAt
sessionValid(sess, t) == sess.set /\ t < sess.expiresAt

\* BlueskyClient.authenticate, followed by the request next
authenticate(g, at, out, next) ==
  CASE at = "start" ->
         IF ~("handle" \in g.cfg["bluesky"] /\ "appPassword" \in g.cfg["bluesky"])
         THEN Throw("Bluesky not configured", 0)
         ELSE IF sessionValid(g.session, g.now) THEN next
         ELSE Fetch("createSession")
    [] at = "createSession" ->
         IF out.kind = "reject" THEN Rejects(out)
         ELSE IF ~resOk(out) THEN Throw("Bluesky auth", out.status)
         ELSE IF ~out.json THEN Rejects(out)
         ELSE next

\* this.session = { ...json, expiresAt: Date.now() + 3600_000 }
\* where creds are the credentials the login request carried
sessionAfter(id, at, out, sess, t, creds) ==
  IF id = "bluesky" /\ at = "createSession" /\ resOk(out) /\ out.json
  THEN [set |-> TRUE, expiresAt |-> t + SessionTtl, creds |-> creds]
  ELSE sess

BlueskyPost(g, inReplyTo, at, out) ==
  IF at \in {"start", "createSession"}
  THEN authenticate(g, at, out,
                    FetchWith("createRecord", blueskyReply(inReplyTo, g.selectedMessage)))
  ELSE IF out.kind = "reject" THEN Rejects(out)
  ELSE IF ~resOk(out) THEN Return(Failure("Bluesky post", out.status))
  ELSE IF ~out.json THEN Rejects(out)
  ELSE Return(Ok("https://bsky.app/profile/"))

\* getProfile() is inlined.
LinkedInPost(g, at, out) ==
  CASE at = "start" ->
         IF "accessToken" \notin g.cfg["linkedin"]
         THEN Return(Failure("LinkedIn not configured", 0))
         ELSE Fetch("me")
    [] at = "me" ->
         IF out.kind = "reject" THEN Rejects(out)
         ELSE IF ~resOk(out) THEN Throw("LinkedIn profile", out.status)
         ELSE IF ~out.json THEN Rejects(out)
         ELSE Fetch("ugcPosts")
    [] at = "ugcPosts" ->
         IF out.kind = "reject" THEN Rejects(out)
         ELSE IF ~resOk(out) THEN Return(Failure("LinkedIn post", out.status))
         ELSE IF ~out.json THEN Rejects(out)
         ELSE Return(Ok("https://linkedin.com/feed/update/"))

\* threadsPublished without the check of publishRes.ok
threadsPublishedUnchecked(out) ==
  IF out.kind = "reject" \/ ~out.json THEN Rejects(out)
  ELSE Return(Ok("https://threads.net/"))

\* what follows the response to the publish request
threadsPublished(out) ==
  IF out.kind = "reject" THEN Rejects(out)
  ELSE IF ~resOk(out) THEN Return(Failure("Threads publish", out.status))
  ELSE IF ~out.json THEN Rejects(out)
  ELSE Return(Ok("https://threads.net/"))

\* threadsCreated without the check of createRes.ok
threadsCreatedUnchecked(out) ==
  IF out.kind = "reject" \/ ~out.json THEN Rejects(out)
  ELSE Fetch("threads_publish")

\* what follows the response to the container-creation request
threadsCreated(out) ==
  IF out.kind = "reject" THEN Rejects(out)
  ELSE IF ~resOk(out) THEN Return(Failure("Threads create", out.status))
  ELSE IF ~out.json THEN Rejects(out)
  ELSE Fetch("threads_publish")

\* getUserId() is inlined.
ThreadsPost(g, inReplyTo, at, out) ==
  CASE at = "start" ->
         IF "accessToken" \notin g.cfg["threads"]
         THEN Return(Failure("Threads not configured", 0))
         ELSE Fetch("me")
    [] at = "me" ->
         IF out.kind = "reject" THEN Rejects(out)
         ELSE IF ~resOk(out) THEN Throw("Threads user", out.status)
         ELSE IF ~out.json THEN Rejects(out)
         ELSE FetchWith("threads", threadsReply(inReplyTo))
    [] at = "threads" -> threadsCreated(out)
    [] at = "threads_publish" -> threadsPublished(out)

\* client.post; for an id without a client the call itself is a TypeError
clientPost(id, g, inReplyTo, at, out) ==
  CASE id = "twitter"  -> TwitterPost(g, inReplyTo, at, out)
    [] id = "bluesky"  -> BlueskyPost(g, inReplyTo, at, out)
    [] id = "linkedin" -> LinkedInPost(g, at, out)
    [] id = "threads"  -> ThreadsPost(g, inReplyTo, at, out)
    [] OTHER           -> Throw("Cannot read properties of undefined", 0)

\* noClient without the lookup
noClientNever(id) == FALSE

\* const client = providerClients[id]; !client
noClient(id) == id \notin providerClients

\* catchPost without the try/catch
catchPostRethrows(step) == step

\* try { return await client.post(...) } catch (err) { return { ok: false, error: err.message } }
catchPost(step) ==
  IF step.kind = "throw"
  THEN Return([ok |-> FALSE, error |-> step.error, url |-> ""])
  ELSE step

\* createProvider(id).post; inReplyTo is state.selectedMessage?.url as the
\* call found it
providerPost(id, g, inReplyTo, at, out) ==
  IF noClient(id) THEN Return(Failure("No provider client", 0))
  ELSE catchPost(clientPost(id, g, inReplyTo, at, out))

(***************************************************************************)
(* Searching, request by request.  A stretch of client.search ends by      *)
(* sending a request, by returning raw items, or by throwing.              *)
(***************************************************************************)
ReturnItems(items) ==
  [kind |-> "return", req |-> "", items |-> items, result |-> NoResult, error |-> NoError]

\* what the service holds: the elements of the LinkedIn feed and the user's own shares
Element(num, words) ==
  Raw("urn:li:share:" \o num, "Live Author", words,
      Url("https://linkedin.com/feed", "update", <<"urn:li:share:", num>>), "", "")

feedElements == <<Element("1", {"we", "are", "hiring"}), Element("2", {"release", "day"})>>

ownElements == <<Element("3", {"my", "talk"}), Element("4", {"hiring", "engineers"})>>

TwitterSearch(g, query, at, out) ==
  CASE at = "start" ->
         IF ~twitterHeaders(g.cfg)
         THEN Throw("Twitter not configured", 0)
         ELSE Fetch("tweets/search/recent")
    [] at = "tweets/search/recent" ->
         IF out.kind = "reject" THEN Rejects(out)
         ELSE IF ~resOk(out) THEN Throw("Twitter", out.status)
         ELSE IF ~out.json THEN Rejects(out)
         ELSE ReturnItems(RawItems("twitter", 1, 0, FALSE))

BlueskySearch(g, query, at, out) ==
  IF at \in {"start", "createSession"}
  THEN authenticate(g, at, out, Fetch("searchPosts"))
  ELSE IF out.kind = "reject" THEN Rejects(out)
  ELSE IF ~resOk(out) THEN Throw("Bluesky search", out.status)
  ELSE IF ~out.json THEN Rejects(out)
  ELSE ReturnItems(RawItems("bluesky", 1, 0, FALSE))

\* search asking for the feed again after a feed request that was not ok
linkedInFeedDeniedRetries(g) == Fetch("feed")

\* search's answer to a feed request that was not ok:
\* return this.getActivity(query), up to getProfile's request
linkedInFeedDenied(g) ==
  IF "accessToken" \notin g.cfg["linkedin"]
  THEN Throw("LinkedIn not configured", 0)
  ELSE Fetch("me")

\* LinkedInClient.search with getActivity and getProfile inlined
LinkedInSearch(g, query, at, out) ==
  CASE at = "start" ->
         IF "accessToken" \notin g.cfg["linkedin"]
         THEN Throw("LinkedIn not configured", 0)
         ELSE Fetch("feed")
    [] at = "feed" ->
         IF out.kind = "reject" THEN Rejects(out)
         ELSE IF ~resOk(out) THEN linkedInFeedDenied(g)
         ELSE IF ~out.json THEN Rejects(out)
         ELSE ReturnItems(Filter(feedElements, query))
    [] at = "me" ->
         IF out.kind = "reject" THEN Rejects(out)
         ELSE IF ~resOk(out) THEN Throw("LinkedIn profile", out.status)
         ELSE IF ~out.json THEN Rejects(out)
         ELSE Fetch("ugcPosts")
    [] at = "ugcPosts" ->
         IF out.kind = "reject" THEN Rejects(out)
         ELSE IF ~resOk(out) THEN ReturnItems(<<>>)
         ELSE IF ~out.json THEN Rejects(out)
         ELSE ReturnItems(Filter(ownElements, query))

\* ThreadsClient.search with getUserId inlined
ThreadsSearch(g, query, at, out) ==
  CASE at = "start" ->
         IF "accessToken" \notin g.cfg["threads"]
         THEN Throw("Threads not configured", 0)
         ELSE Fetch("me")
    [] at = "me" ->
         IF out.kind = "reject" THEN Rejects(out)
         ELSE IF ~resOk(out) THEN Throw("Threads user", out.status)
         ELSE IF ~out.json THEN Rejects(out)
         ELSE Fetch("threads?fields")
    [] at = "threads?fields" ->
         IF out.kind = "reject" THEN Rejects(out)
         ELSE IF ~resOk(out) THEN Throw("Threads feed", out.status)
         ELSE IF ~out.json THEN Rejects(out)
         ELSE ReturnItems(RawItems("threads", 1, 0, TRUE))

clientSearch(id, g, query, at, out) ==
  CASE id = "twitter"  -> TwitterSearch(g, query, at, out)
    [] id = "bluesky"  -> BlueskySearch(g, query, at, out)
    [] id = "linkedin" -> LinkedInSearch(g, query, at, out)
    [] OTHER           -> ThreadsSearch(g, query, at, out)

NoSearchCall ==
  [n |-> 0, id |-> "", query |-> "", at |-> "idle", configured |-> FALSE, creds |-> 0,
   sent |-> <<>>, got |-> <<>>, how |-> "none", posts |-> <<>>]

\* createProvider(id).search after a stretch of client.search that ended with step
afterSearchStep(cl, step) ==
  CASE step.kind = "fetch" ->
         [cl EXCEPT !.at = step.req, !.sent = Append(@, step.req)]
    [] step.kind = "return" ->
         [cl EXCEPT !.at = "done", !.how = "live",
                    !.posts = normalizePosts(step.items, cl.id)]
    [] step.kind = "throw" ->
         [cl EXCEPT !.at = "done", !.how = "fallback",
                    !.posts = fallbackMock(cl.id, cl.query)]

\* The ids createProvider is applied to: the registry's, and one without a client.
PostIds == ProviderIds \cup {"mastodon"}

\* state.selectedMessage: null
NoMessage == Post("", "", "", {}, NoUrl, "", "", FALSE)

NoCall ==
  [n |-> 0, id |-> "", at |-> "idle", ui |-> FALSE, msg |-> NoMessage, inReplyTo |-> NoUrl,
   creds |-> 0, configured |-> FALSE, sent |-> <<>>, body |-> <<>>, got |-> <<>>, result |-> NoResult, raised |-> FALSE]

\* the state of the call after a stretch that ended with step
afterStep(cl, step) ==
  CASE step.kind = "fetch" ->
         [cl EXCEPT !.at = step.req, !.sent = Append(@, step.req),
                    !.body = Append(@, step.reply)]
    [] step.kind = "return" ->
         [cl EXCEPT !.at = "done", !.result = step.result]
    [] step.kind = "throw" ->
         [cl EXCEPT !.at = "done", !.raised = TRUE]

(***************************************************************************)
(* State after init(): every configured provider is selected and the first *)
(* runSearch has been called.                                              *)
(***************************************************************************)
NoWrite == [id |-> 0, run |-> [query |-> "", active |-> {},
                                slots |-> [id \in ProviderIds |-> IdleSlot]],
            flat |-> <<>>, issuedThen |-> 0]

engine == Engine(feed, feedEl, status, runs, issued, lastWrite)

SetEngine(e) ==
  /\ feed' = e.feed
  /\ feedEl' = e.feedEl
  /\ status' = e.status
  /\ runs' = e.runs
  /\ issued' = e.issued
  /\ lastWrite' = e.lastWrite

\* enabledByDefault with every provider enabled
enabledAll(c) == ProviderIds

\* "Enable all configured providers by default"
enabledByDefault(c) == {id \in ProviderIds : isConfigured(c, id)}

InitSearch(configs) ==
  /\ cfg \in configs
  /\ selectedProviders = enabledByDefault(cfg)
  /\ searchInput = ""
  /\ LET e == runSearch(cfg, selectedProviders, "",
                        Engine(<<>>, [msg |-> "", cards |-> <<>>],
                               Status("", 0, 0, {}), <<>>, 0, NoWrite))
     IN /\ feed = e.feed
        /\ feedEl = e.feedEl
        /\ status = e.status
        /\ runs = e.runs
        /\ issued = e.issued
        /\ lastWrite = e.lastWrite

\* replyText.value: ""
NoText == [kind |-> "empty", echo |-> <<>>, gif |-> "none"]

\* localStorage works and holds no "sm_cache"; no handler has written yet.
\* written: the keys that hold a value; failed and alerted: the keys the last
\* handler failed to write, and those it raised an alert for; gifs: the
\* length of state.gifPref, which starts with the three GIFs of loadGifs;
\* banner: init's "Storage Unavailable" notice is on the page; config: the
\* providers' part of "sm_config"; edition: how many times the Bluesky
\* credentials config() returns have been replaced by other ones.
NoStore == [available |-> TRUE, cache |-> FALSE, banner |-> FALSE, written |-> {},
            failed |-> {}, alerted |-> {}, gifs |-> 3,
            config |-> [id \in ProviderIds |-> {}], edition |-> 0]

\* localStorage holding the configuration c under "sm_config"
Stored(c) == [NoStore EXCEPT !.config = c]

\* What localStorage.setItem meets: the value fits, it fits once "sm_cache"
\* is removed, or it does not fit (QuotaExceededError).
Rooms == {"fits", "afterCache", "full"}

\* safeSetItem(key, value): whether it returns true
setItemOk(st, room) ==
  st.available /\ (room = "fits" \/ (room = "afterCache" /\ st.cache))

\* safeSetItem(key, value) in a handler that has written st.failed in vain:
\* the store afterwards
safeSetItem(st, key, room) ==
  IF ~st.available THEN [st EXCEPT !.failed = @ \cup {key}]
  ELSE IF room = "fits" THEN [st EXCEPT !.written = @ \cup {key}]
  ELSE IF setItemOk(st, room)
       THEN [st EXCEPT !.cache = FALSE, !.written = @ \cup {key}]
       ELSE [st EXCEPT !.cache = FALSE, !.failed = @ \cup {key}]

\* a handler starts: nothing failed or alerted in it yet
handler(st) == [st EXCEPT !.failed = {}, !.alerted = {}]

\* saveConfig(cfg): alert("Unable to save settings. ...") when the write failed
saveConfig(st, newCfg, room) ==
  LET after == safeSetItem(st, "sm_config", room)
  IN IF setItemOk(st, room) THEN [after EXCEPT !.config = newCfg]
     ELSE [after EXCEPT !.alerted = @ \cup {"sm_config"}]

\* config() after a handler: window.socialConfig || loadStoredConfig(), where
\* was is what config() returned before
config(injected, was, st) == IF injected THEN was ELSE st.config

\* saveSearchPresets(list), its result dropped by the caller
saveSearchPresets(st, room) == safeSetItem(st, "sm_searches", room)

\* saveGifs(list), its result dropped by the callers
saveGifs(st, room) == safeSetItem(st, "sm_gifs", room)

\* The addresses the page asks for: one of ASSETS and one that is not.
Urls == {"icon.svg", "app-data"}

ASSETS == {"icon.svg"}

\* `social-manager-${VERSION}` of the worker modelled
CACHE == "social-manager-2"

\* caches of the origin under other names: an earlier version's, and one
\* another script of the origin keeps
OtherCaches == {"social-manager-1", "fonts"}

\* The service worker before "install": the cache CACHE is empty (0 for no
\* entry, else the version of the response held), the origin serves the
\* first version of each address, no fetch is in flight, nothing was served.
\* names: the caches CacheStorage holds; keys: what caches.keys() gave the
\* "activate" listener; put: the caches this worker has written to.
NoWorker ==
  [installed |-> FALSE, cache |-> [u \in Urls |-> 0], origin |-> [u \in Urls |-> 1],
   inflight |-> {}, served |-> [n |-> 0, url |-> "", version |-> 0, from |-> "none"],
   names |-> {}, keys |-> {}, activating |-> FALSE, activated |-> FALSE, put |-> {}]

\* no function applied
NoRet == [fn |-> "", arg |-> <<>>, out |-> <<>>, done |-> FALSE, n |-> 0]

\* debounce's closure before any input event: t is undefined (0), no timeout
\* is pending, fn has not run (fired counts its runs, query is what the last
\* run passed to runSearch)
NoTimer == [t |-> 0, pending |-> {}, fired |-> 0, query |-> ""]

\* no click, call or clock tick has happened yet
Resting ==
  /\ events = 0
  /\ call = NoCall
  /\ session = NoSession
  /\ now = 0
  /\ scall = NoSearchCall
  /\ selectedMessage = NoMessage
  /\ drafting = <<>>
  /\ replyText = NoText
  /\ llmToken = FALSE
  /\ sw = NoWorker
  /\ timer = NoTimer

\* nothing else has happened yet
Idle ==
  /\ Resting
  /\ socialConfig = FALSE
  /\ store = Stored(cfg)
  /\ ret = NoRet

Init ==
  /\ InitSearch(StoredConfigs(SingleLoads))
  /\ Idle

(***************************************************************************)
(* The user's actions that start a search.                                 *)
(***************************************************************************)
\* the debounced input handler fires while the search box holds q:
\* runSearch(e.target.value)
InputSearch(q, max) ==
  /\ events < max
  /\ events' = events + 1
  /\ searchInput' = q
  /\ SetEngine(runSearch(cfg, selectedProviders, q, engine))
  /\ UNCHANGED <<cfg, selectedProviders, call, session, now, scall, selectedMessage, drafting, auxVars>>

\* click on the refresh button
Refresh(max) ==
  /\ events < max
  /\ events' = events + 1
  /\ SetEngine(runSearch(cfg, selectedProviders, searchInput, engine))
  /\ UNCHANGED <<cfg, selectedProviders, searchInput, call, session, now, scall,
                 selectedMessage, drafting, auxVars>>

\* click on a search preset
PresetClick(q, max) ==
  /\ events < max
  /\ events' = events + 1
  /\ searchInput' = q
  /\ SetEngine(runSearch(cfg, selectedProviders, q, engine))
  /\ UNCHANGED <<cfg, selectedProviders, call, session, now, scall, selectedMessage, drafting, auxVars>>

\* click on a provider's toggle; renderProviders draws one per configured provider
Toggle(id, max) ==
  /\ isConfigured(cfg, id)
  /\ events < max
  /\ events' = events + 1
  /\ selectedProviders' = IF id \in selectedProviders
                          THEN selectedProviders \ {id}
                          ELSE selectedProviders \cup {id}
  /\ SetEngine(runSearch(cfg, selectedProviders', searchInput, engine))
  /\ UNCHANGED <<cfg, searchInput, call, session, now, scall, selectedMessage, drafting, auxVars>>

\* client.search of call k settles for provider id
AdapterSettles(k, id, outcome) ==
  /\ k \in DOMAIN runs
  /\ id \in runs[k].active
  /\ runs[k].slots[id].st = "pending"
  /\ outcome \in OutcomesOf(id)
  /\ LET run == [runs[k] EXCEPT !.slots[id] =
                   settle(cfg, id, runs[k].query, outcome, TRUE)]
     IN SetEngine(afterSettle(k, run, engine))
  /\ UNCHANGED <<cfg, selectedProviders, searchInput, events, call, session, now,
                 scall, selectedMessage, drafting, auxVars>>

\* submit of a provider's configuration form
SaveCredentials(id, values, room, max) ==
  /\ values \subseteq Fields(id)
  /\ events < max
  /\ events' = events + 1
  /\ LET newCfg == [cfg EXCEPT ![id] = values]
         saved == saveConfig(handler(store), newCfg, room)
     IN /\ cfg' = config(socialConfig, cfg, saved)
        /\ store' = [saved EXCEPT !.edition =
                       IF id = "bluesky" /\ ~socialConfig /\ setItemOk(store, room)
                       THEN @ + 1 ELSE @]
  /\ status' = Status("configured", 0, 0, {id})
  /\ UNCHANGED <<selectedProviders, searchInput, feed, feedEl,
                 runs, issued, lastWrite, call, session, now, scall, selectedMessage,
                 drafting, replyText, llmToken, sw, ret,
                 socialConfig, timer>>

NextSearch(max) ==
  \/ \E q \in Queries : InputSearch(q, max)
  \/ Refresh(max)
  \/ \E q \in Queries : PresetClick(q, max)
  \/ \E id \in ProviderIds : Toggle(id, max)
  \/ \E k \in 1..(max + 1), id \in ProviderIds, o \in SearchOutcomes :
       AdapterSettles(k, id, o)
  \/ \E id \in ProviderIds, v \in SUBSET {"bearerToken", "handle", "appPassword", "accessToken"},
        room \in Rooms : SaveCredentials(id, v, room, max)

Next == NextSearch(MaxEvents)

Spec == Init /\ [][Next]_vars

InitMulti ==
  /\ InitSearch(StoredConfigs(MultiLoads))
  /\ Idle

NextMulti == NextSearch(MaxMultiEvents)

SpecMulti == InitMulti /\ [][NextMulti]_vars

(***************************************************************************)
(* provider.post calls.                                                    *)
(***************************************************************************)
globals == Globals(cfg, session, now, selectedMessage)

\* provider.post is called, as handlePost does; it runs up to its first fetch
PostStart(id) ==
  /\ call.at \in {"idle", "done"}
  /\ call.n < MaxPostCalls
  /\ call' = afterStep([NoCall EXCEPT !.n = call.n + 1, !.id = id, !.creds = store.edition,
                                      !.msg = selectedMessage,
                                      !.inReplyTo = selectedMessage.url,
                                      !.configured = isConfigured(cfg, id)],
                       providerPost(id, globals, selectedMessage.url, "start", NoOutcome))
  /\ UNCHANGED <<cfg, selectedProviders, searchInput, feed, feedEl, status,
                 runs, issued, lastWrite, events, session, now, scall, selectedMessage,
                 drafting, auxVars>>

\* if (res.ok) setStatus(`Posted to ${provider.id}`) without the test of res.ok
postStatusAlwaysPosted(id, res) == Status("Posted to", 0, 0, {id})

\* if (res.ok) setStatus(`Posted to ${provider.id}`); else setStatus(res.error || "Post failed")
postStatus(id, res) ==
  IF res.ok THEN Status("Posted to", 0, 0, {id})
  ELSE IF res.error.text # "" THEN [Status("error", 0, 0, {}) EXCEPT !.error = res.error]
  ELSE Status("Post failed", 0, 0, {})

\* the awaited fetch settles and the call runs on to its next fetch or its end,
\* where handlePost, if it made the call, shows the result
PostResponse(out) ==
  /\ call.at \notin {"idle", "done"}
  /\ call' = afterStep([call EXCEPT !.got = Append(@, out)],
                       providerPost(call.id, globals, call.inReplyTo, call.at, out))
  /\ session' = sessionAfter(call.id, call.at, out, session, now, call.creds)
  /\ status' = IF call.ui /\ call'.at = "done" /\ ~call'.raised
                THEN postStatus(call.id, call'.result)
                ELSE status
  /\ UNCHANGED <<cfg, selectedProviders, searchInput, feed, feedEl,
                 runs, issued, lastWrite, events, now, scall, selectedMessage, drafting, auxVars>>

\* time passes until session.expiresAt
SessionExpires ==
  /\ sessionValid(session, now)
  /\ now' = session.expiresAt
  /\ UNCHANGED <<cfg, selectedProviders, searchInput, feed, feedEl, status,
                 runs, issued, lastWrite, events, call, session, scall, selectedMessage,
                 drafting, auxVars>>

InitPost ==
  /\ InitSearch(Configs)
  /\ Idle

NextPost ==
  \/ \E id \in PostIds : PostStart(id)
  \/ \E out \in FetchOutcomes : PostResponse(out)
  \/ SessionExpires

SpecPost == InitPost /\ [][NextPost]_vars

(***************************************************************************)
(* Client calls request by request: searches beside posts, and the clock.  *)
(***************************************************************************)
\* provider.search(query) is called, as runSearch does; it runs up to its first fetch
SearchStart(id, query) ==
  /\ scall.at \in {"idle", "done"}
  /\ scall.n < MaxSearchCalls
  /\ scall' = afterSearchStep([NoSearchCall EXCEPT !.n = scall.n + 1, !.id = id,
                                                   !.creds = store.edition,
                                                   !.query = query,
                                                   !.configured = isConfigured(cfg, id)],
                              clientSearch(id, globals, query, "start", NoOutcome))
  /\ UNCHANGED <<cfg, selectedProviders, searchInput, feed, feedEl, status, runs,
                 issued, lastWrite, events, call, session, now, selectedMessage,
                 drafting, auxVars>>

\* the fetch the search awaits settles
SearchResponse(out) ==
  /\ scall.at \notin {"idle", "done"}
  /\ scall' = afterSearchStep([scall EXCEPT !.got = Append(@, out)],
                              clientSearch(scall.id, globals, scall.query, scall.at, out))
  /\ session' = sessionAfter(scall.id, scall.at, out, session, now, scall.creds)
  /\ UNCHANGED <<cfg, selectedProviders, searchInput, feed, feedEl, status, runs,
                 issued, lastWrite, events, call, now, selectedMessage, drafting, auxVars>>

\* The clock moves by a millisecond or by a millisecond less than an hour.
TickSteps == {1, SessionTtl - 1}

Clock == {a + b * (SessionTtl - 1) : a \in 0..MaxTicks, b \in 0..MaxTicks}

Tick(d) ==
  /\ now + d \in Clock
  /\ now' = now + d
  /\ UNCHANGED <<cfg, selectedProviders, searchInput, feed, feedEl, status, runs,
                 issued, lastWrite, events, call, session, scall, selectedMessage,
                 drafting, auxVars>>

\* Bluesky's client alone: a search and a post may overlap.
InitSession ==
  /\ InitSearch(StoredConfigs({{}, {"bluesky"}}))
  /\ Idle

NextSession ==
  \/ PostStart("bluesky")
  \/ \E q \in Queries : SearchStart("bluesky", q)
  \/ \E out \in FetchOutcomes : PostResponse(out)
  \/ \E out \in FetchOutcomes : SearchResponse(out)
  \/ \E d \in TickSteps : Tick(d)

SpecSession == InitSession /\ [][NextSession]_vars

\* Every client: a search and a post may overlap.
NextClient ==
  \/ \E id \in ProviderIds : PostStart(id)
  \/ \E id \in ProviderIds, q \in Queries : SearchStart(id, q)
  \/ \E out \in FetchOutcomes : PostResponse(out)
  \/ \E out \in FetchOutcomes : SearchResponse(out)
  \/ SessionExpires

SpecClient == InitPost /\ [][NextClient]_vars

(***************************************************************************)
(* Replying: selecting a post of the feed, drafting, publishing.           *)
(***************************************************************************)
\* selectPost storing a copy tagged as demo
selectPostTagged(post) == [post EXCEPT !.isDemo = TRUE]

\* state.selectedMessage = post
selectPost(post) == post

\* A text as its pieces in order, each with its length in characters; a
\* piece cut short keeps its name and the length that is left of it.
Piece(s, n) == [s |-> s, n |-> n]

\* The length of a provider's id.
NameLen(provider) == IF provider = "linkedin" THEN 8 ELSE 7

\* buildPrompt(): the lead-in of 52 characters, the selected message's
\* provider or "unknown", and ". Tone: " with the rest of the prompt
buildPrompt(msg) ==
  LET provider == IF msg.provider = "" THEN "unknown" ELSE msg.provider
  IN << Piece("You are a witty social media ghostwriter. Provider: ", 52),
        Piece(provider, NameLen(provider)),
        Piece(". Tone: ", 8) >>

\* text.slice(0, k)
RECURSIVE slice(_, _)
slice(text, k) ==
  IF text = <<>> \/ k = 0 THEN <<>>
  ELSE IF Head(text).n <= k THEN <<Head(text)>> \o slice(Tail(text), k - Head(text).n)
  ELSE <<Piece(Head(text).s, k)>>

\* What the model's endpoint answers: fetch rejects, or a response with a
\* status, a body that is JSON or not, and a first choice with content or not.
ModelOutcomes ==
  {[kind |-> "reject", status |-> 0, json |-> FALSE, content |-> FALSE],
   [kind |-> "response", status |-> 500, json |-> TRUE, content |-> FALSE],
   [kind |-> "response", status |-> 200, json |-> FALSE, content |-> FALSE],
   [kind |-> "response", status |-> 200, json |-> TRUE, content |-> FALSE],
   [kind |-> "response", status |-> 200, json |-> TRUE, content |-> TRUE]}

\* the GIF line of a text: none, one of state.gifPref, or "[add a GIF]"
pickGif(wantGif, gifs) ==
  IF ~wantGif THEN "none" ELSE IF gifs > 0 THEN "picked" ELSE "placeholder"

\* `Here is a punchy take: ${prompt.slice(0, 60)}… 🚀` and the GIF line
playfulFallback(prompt, wantGif, gifs) ==
  [kind |-> "fallback", echo |-> slice(prompt, 60), gif |-> pickGif(wantGif, gifs)]

\* the model's text, with the GIF line when a GIF was picked
modelText(wantGif, gifs) ==
  [kind |-> "model", echo |-> <<>>,
   gif |-> IF wantGif /\ gifs > 0 THEN "picked" ELSE "none"]

ReturnText(text) == [kind |-> "return", text |-> text]

ThrowText == [kind |-> "throw", text |-> NoText]

FetchModel == [kind |-> "fetch", text |-> NoText]

\* callGitHubModel(prompt, wantGif) from at, where out is what its fetch gave
callGitHubModel(token, prompt, wantGif, gifs, at, out) ==
  IF at = "start"
  THEN IF ~token THEN ReturnText(playfulFallback(prompt, wantGif, gifs))
       ELSE FetchModel
  ELSE IF out.kind = "reject" THEN ThrowText
  ELSE IF ~resOk(out) THEN ThrowText
  ELSE IF ~out.json THEN ThrowText
  ELSE IF ~out.content THEN ThrowText
  ELSE ReturnText(modelText(wantGif, gifs))

\* a catch in draftReply that logs the error and leaves the reply as it is
draftCaughtKeeps(prompt, wantGif, gifs, text) == text

\* catch (err): replyText.value = playfulFallback(prompt, contentType === "gif")
draftCaught(prompt, wantGif, gifs, text) == playfulFallback(prompt, wantGif, gifs)

\* replyText.value once callGitHubModel has returned or thrown
draftText(prompt, wantGif, gifs, text, step) ==
  IF step.kind = "return" THEN step.text
  ELSE draftCaught(prompt, wantGif, gifs, text)

\* draftReply() up to the fetch of callGitHubModel, or to its end when no
\* token is set: msg is state.selectedMessage, wantGif the content type
draftReply(msg, wantGif) ==
  LET prompt == buildPrompt(msg)
      step == callGitHubModel(llmToken, prompt, wantGif, store.gifs, "start", NoOutcome)
  IN IF step.kind = "fetch"
     THEN /\ status' = Status("Drafting", 0, 0, {})
          /\ drafting' = Append(drafting, [prompt |-> prompt, gif |-> wantGif])
          /\ UNCHANGED replyText
     ELSE /\ status' = Status("Ready", 0, 0, {})
          /\ replyText' = draftText(prompt, wantGif, store.gifs, replyText, step)
          /\ UNCHANGED drafting

\* autoDraftToggle and contentSelect: no draft, a text, or a GIF with a caption
DraftModes == {"off", "text", "gif"}

\* click on "Reply" of the i-th card
SelectPost(i, auto, max) ==
  /\ i \in 1..Len(feedEl.cards)
  /\ events < max
  /\ events' = events + 1
  /\ selectedMessage' = selectPost(feedEl.cards[i])
  /\ IF auto = "off"
     THEN UNCHANGED <<status, drafting, replyText>>
     ELSE draftReply(selectedMessage', auto = "gif")
  /\ UNCHANGED <<cfg, selectedProviders, searchInput, feed, feedEl, runs, issued,
                 lastWrite, call, session, now, scall, llmToken, store, sw, ret,
                 socialConfig, timer>>

\* click on the draft button
DraftClick(wantGif, max) ==
  /\ events < max
  /\ events' = events + 1
  /\ draftReply(selectedMessage, wantGif)
  /\ UNCHANGED <<cfg, selectedProviders, searchInput, feed, feedEl, runs, issued,
                 lastWrite, call, session, now, scall, selectedMessage, llmToken,
                 store, sw, ret,
                 socialConfig, timer>>

\* the fetch of the i-th draft in flight settles: the rest of callGitHubModel
\* and of draftReply, finally setStatus("Ready")
DraftSettles(i, out) ==
  /\ i \in 1..Len(drafting)
  /\ LET d == drafting[i]
         step == callGitHubModel(TRUE, d.prompt, d.gif, store.gifs, "fetch", out)
     IN replyText' = draftText(d.prompt, d.gif, store.gifs, replyText, step)
  /\ drafting' = SubSeq(drafting, 1, i - 1) \o SubSeq(drafting, i + 1, Len(drafting))
  /\ status' = Status("Ready", 0, 0, {})
  /\ UNCHANGED <<cfg, selectedProviders, searchInput, feed, feedEl, runs, issued,
                 lastWrite, events, call, session, now, scall, selectedMessage,
                 llmToken, store, sw, ret,
                 socialConfig, timer>>

\* click on the clear button
ClearDraft(max) ==
  /\ events < max
  /\ events' = events + 1
  /\ selectedMessage' = NoMessage
  /\ replyText' = NoText
  /\ UNCHANGED <<cfg, selectedProviders, searchInput, feed, feedEl, status, runs,
                 issued, lastWrite, call, session, now, scall, drafting, llmToken,
                 store, sw, ret,
                 socialConfig, timer>>

\* click on "Save" of the settings dialogue with a token typed in or not:
\* the presets and then the configuration are written, the providers'
\* credentials as they were read, and a token typed in becomes
\* window.githubModelsToken whether or not it was stored
SaveSettings(token, presetsRoom, configRoom, max) ==
  /\ events < max
  /\ events' = events + 1
  /\ store' = saveConfig(saveSearchPresets(handler(store), presetsRoom), cfg, configRoom)
  /\ llmToken' = (token \/ llmToken)
  /\ status' = Status("Settings saved", 0, 0, {})
  /\ UNCHANGED <<cfg, selectedProviders, searchInput, feed, feedEl, runs, issued,
                 lastWrite, call, session, now, scall, selectedMessage, drafting,
                 replyText, sw, ret,
                 socialConfig, timer>>

\* click on the post button, up to the first fetch of provider.post
\* With no message selected it alerts "Select a post first." and returns.
HandlePost(max) ==
  /\ call.at \in {"idle", "done"}
  /\ events < max
  /\ events' = events + 1
  /\ IF selectedMessage = NoMessage \/ selectedMessage.provider \notin ProviderIds
     THEN UNCHANGED <<call, status>>
     ELSE LET id == selectedMessage.provider
          IN /\ call' = afterStep([NoCall EXCEPT !.n = call.n + 1, !.id = id, !.creds = store.edition,
                                                 !.ui = TRUE,
                                                 !.msg = selectedMessage,
                                                 !.inReplyTo = selectedMessage.url,
                                                 !.configured = isConfigured(cfg, id)],
                                  providerPost(id, globals, selectedMessage.url, "start",
                                               NoOutcome))
             /\ status' = IF call'.at = "done" /\ ~call'.raised
                           THEN postStatus(id, call'.result)
                           ELSE Status("Posting to", 0, 0, {id})
  /\ UNCHANGED <<cfg, selectedProviders, searchInput, feed, feedEl, runs, issued,
                 lastWrite, session, now, scall, selectedMessage, drafting, auxVars>>

NextReply ==
  \/ NextSearch(MaxReplyEvents)
  \/ \E i \in 1..(3 + MaxLive), auto \in {"off", "text"} :
       SelectPost(i, auto, MaxReplyEvents)
  \/ DraftClick(FALSE, MaxReplyEvents)
  \/ \E out \in {o \in ModelOutcomes : o.kind = "reject" \/ o.content} :
       DraftSettles(1, out)
  \/ ClearDraft(MaxReplyEvents)
  \/ \E token \in BOOLEAN, room \in {"fits", "full"} :
       SaveSettings(token, room, room, MaxReplyEvents)
  \/ HandlePost(MaxReplyEvents)
  \/ \E out \in FetchOutcomes : PostResponse(out)

SpecReply == Init /\ [][NextReply]_vars

(***************************************************************************)
(* Helper functions, each applied once to an argument drawn at the start.  *)
(***************************************************************************)
\* a call of fn with arg that has not run yet
Pending(fn, arg) == [fn |-> fn, arg |-> arg, out |-> <<>>, done |-> FALSE, n |-> 0]

\* the call returns out
Returned(out) == [ret EXCEPT !.out = out, !.done = TRUE, !.n = @ + 1]

\* no provider is configured and nothing but the call happens
InitCall(calls) ==
  /\ InitSearch(StoredConfigs({{}}))
  /\ Resting
  /\ socialConfig = FALSE
  /\ store = NoStore
  /\ ret \in calls

MaxHalfHours == 100

\* Date.now() - new Date(dateStr).getTime(), in milliseconds: half hours up to
\* two days, the edges of a minute, an hour and a day, and dates ahead of now
Elapsed ==
  {h * 1800000 : h \in 0..MaxHalfHours}
    \cup {45000, 59999, 60000, 60001, 119999, 3599999, 3600000, 86399999, 86400000}
    \cup {0 - 1, 0 - 60000, 0 - 60001}

\* dateStr: absent, or a date elapsed milliseconds before now
TimeArgs == [missing : BOOLEAN, elapsed : Elapsed]

\* relativeTime with Math.round in place of Math.floor
relativeTimeRounded(arg) ==
  IF arg.missing THEN "just now"
  ELSE LET mins == (2 * arg.elapsed + 60000) \div 120000
           hrs == (2 * mins + 60) \div 120
           days == (2 * hrs + 24) \div 48
       IN IF mins < 1 THEN "just now"
          ELSE IF mins < 60 THEN ToString(mins) \o "m"
          ELSE IF hrs < 24 THEN ToString(hrs) \o "h"
          ELSE ToString(days) \o "d"

relativeTime(arg) ==
  IF arg.missing THEN "just now"
  ELSE LET ms == arg.elapsed
           mins == ms \div 60000
           hrs == mins \div 60
           days == hrs \div 24
       IN IF mins < 1 THEN "just now"
          ELSE IF mins < 60 THEN ToString(mins) \o "m"
          ELSE IF hrs < 24 THEN ToString(hrs) \o "h"
          ELSE ToString(days) \o "d"

RelativeTimeCall ==
  /\ ret.fn = "relativeTime"
  /\ ~ret.done
  /\ ret' = Returned(relativeTime(ret.arg))
  /\ UNCHANGED <<cfg, selectedProviders, searchInput, feed, feedEl, status, runs,
                 issued, lastWrite, events, call, session, now, scall, selectedMessage,
                 drafting, replyText, llmToken, store, sw,
                 socialConfig, timer>>

InitTime == InitCall({Pending("relativeTime", a) : a \in TimeArgs})

NextTime == RelativeTimeCall

SpecTime == InitTime /\ [][NextTime]_vars

MaxItems == 2

\* Raw items as a search may hand them over: complete ones of Twitter and
\* Bluesky, one with nothing at all, and ones that name the author, the text
\* and the address under their other keys, alone or beside the first key.
RawSamples ==
  { NoRaw,
    [Raw("7", "Live Author", {"live"},
         Url("https://twitter.com/live", "status", <<"7">>), "", "")
       EXCEPT !.conversationId = "5"],
    Raw("at://did:plc:live/app.bsky.feed.post/8k", "Live Author", {"live"},
        Url("https://bsky.app/profile/live", "post", <<"8", "k">>),
        "at://did:plc:live/app.bsky.feed.post/8k", "bafy8"),
    [NoRaw EXCEPT !.user = "pat", !.body = {"body"},
                  !.permalink = Url("https://threads.net/@pat", "post", <<"9">>),
                  !.cid = "bafy9"],
    [NoRaw EXCEPT !.username = "sam", !.link = Url("https://example.org", "p", <<"1">>),
                  !.time = "4h", !.uri = "at://sam/1"],
    [NoRaw EXCEPT !.id = "10", !.author = "Ann", !.user = "bob", !.username = "cy",
                  !.words = {"text"}, !.body = {"body"},
                  !.url = Url("https://example.org", "u", <<"1">>),
                  !.permalink = Url("https://example.org", "p", <<"2">>),
                  !.link = Url("https://example.org", "l", <<"3">>)],
    [NoRaw EXCEPT !.user = "bob", !.username = "cy", !.handle = "h",
                  !.permalink = Url("https://example.org", "p", <<"2">>),
                  !.link = Url("https://example.org", "l", <<"3">>),
                  !.conversationId = "11"] }

RawLists == UNION {[1..n -> RawSamples] : n \in 0..MaxItems}

NormalizeArgs == [items : RawLists, provider : {"twitter", "threads"}]

NormalizePostsCall ==
  /\ ret.fn = "normalizePosts"
  /\ ~ret.done
  /\ ret' = Returned(normalizePosts(ret.arg.items, ret.arg.provider))
  /\ UNCHANGED <<cfg, selectedProviders, searchInput, feed, feedEl, status, runs,
                 issued, lastWrite, events, call, session, now, scall, selectedMessage,
                 drafting, replyText, llmToken, store, sw,
                 socialConfig, timer>>

InitNormalize == InitCall({Pending("normalizePosts", a) : a \in NormalizeArgs})

NextNormalize == NormalizePostsCall

SpecNormalize == InitNormalize /\ [][NextNormalize]_vars

MaxChecks == 3

\* provider.isConfigured() that also asks the service whether the credentials hold
IsConfiguredCallProbing(id) ==
  /\ ret.n < MaxChecks
  /\ ret' = [fn |-> "isConfigured", arg |-> [id |-> id, cfg |-> cfg],
             out |-> isConfigured(cfg, id), done |-> TRUE, n |-> ret.n + 1]
  /\ scall' = [scall EXCEPT !.sent = Append(@, "verify")]
  /\ UNCHANGED <<cfg, selectedProviders, searchInput, feed, feedEl, status, runs,
                 issued, lastWrite, events, call, session, now, selectedMessage,
                 drafting, replyText, llmToken, store, sw,
                 socialConfig, timer>>

\* provider.isConfigured() is called, as renderProviders, runSearch and init do
IsConfiguredCall(id) ==
  /\ ret.n < MaxChecks
  /\ ret' = [fn |-> "isConfigured", arg |-> [id |-> id, cfg |-> cfg],
             out |-> isConfigured(cfg, id), done |-> TRUE, n |-> ret.n + 1]
  /\ UNCHANGED <<cfg, selectedProviders, searchInput, feed, feedEl, status, runs,
                 issued, lastWrite, events, call, session, now, scall, selectedMessage,
                 drafting, replyText, llmToken, store, sw,
                 socialConfig, timer>>

NextConfigured ==
  \/ \E id \in PostIds : IsConfiguredCall(id)
  \/ \E id \in ProviderIds, v \in SUBSET {"bearerToken", "handle", "appPassword", "accessToken"},
        room \in Rooms : SaveCredentials(id, v, room, MaxMultiEvents)
  \/ PostStart("bluesky")
  \/ \E out \in FetchOutcomes : PostResponse(out)

SpecConfigured == Init /\ [][NextConfigured]_vars

(***************************************************************************)
(* Bluesky's client while its credentials are saved anew.                  *)
(***************************************************************************)
MaxCredsEvents == 2

NextCreds ==
  \/ PostStart("bluesky")
  \/ \E q \in Queries : SearchStart("bluesky", q)
  \/ \E out \in FetchOutcomes : PostResponse(out)
  \/ \E out \in FetchOutcomes : SearchResponse(out)
  \/ \E v \in SUBSET Fields("bluesky"), room \in Rooms :
       SaveCredentials("bluesky", v, room, MaxCredsEvents)

SpecCreds == InitSession /\ [][NextCreds]_vars

(***************************************************************************)
(* Replying on Bluesky while the selection changes.                        *)
(***************************************************************************)
MaxThreadEvents == 3

NextThread ==
  \/ \E o \in SearchOutcomes : AdapterSettles(1, "bluesky", o)
  \/ \E i \in 1..(3 + MaxLive) : SelectPost(i, "off", MaxThreadEvents)
  \/ ClearDraft(MaxThreadEvents)
  \/ HandlePost(MaxThreadEvents)
  \/ \E out \in FetchOutcomes : PostResponse(out)

SpecThread == InitSession /\ [][NextThread]_vars

(***************************************************************************)
(* Drafting alone: selecting, drafting with and without a token, clearing. *)
(***************************************************************************)
MaxDraftEvents == 2

NextDraft ==
  \/ \E id \in ProviderIds, o \in SearchOutcomes : AdapterSettles(1, id, o)
  \/ \E i \in 1..(3 + MaxLive), auto \in DraftModes : SelectPost(i, auto, MaxDraftEvents)
  \/ \E wantGif \in BOOLEAN : DraftClick(wantGif, MaxDraftEvents)
  \/ \E i \in 1..MaxDraftEvents, out \in ModelOutcomes : DraftSettles(i, out)
  \/ ClearDraft(MaxDraftEvents)
  \/ \E token \in BOOLEAN : SaveSettings(token, "fits", "fits", MaxDraftEvents)

SpecDraft == Init /\ [][NextDraft]_vars

(***************************************************************************)
(* scripts/set-version.js: resolveVersion.  A string is the sequence of    *)
(* its characters.                                                         *)
(***************************************************************************)
\* an environment variable: not set, or set to a value
Unset == [set |-> FALSE, value |-> <<>>]

EnvVar(value) == [set |-> TRUE, value |-> value]

\* a JavaScript string, or undefined, taken as a condition
truthy(v) == v.set /\ v.value # <<>>

Whitespace == {" ", "\n"}

\* String.prototype.trim
RECURSIVE trim(_)
trim(str) ==
  IF str = <<>> THEN <<>>
  ELSE IF Head(str) \in Whitespace THEN trim(Tail(str))
  ELSE IF str[Len(str)] \in Whitespace THEN trim(SubSeq(str, 1, Len(str) - 1))
  ELSE str

\* str.slice(0, k)
sliceChars(str, k) == SubSeq(str, 1, IF Len(str) < k THEN Len(str) ELSE k)

AppVersions ==
  {Unset, EnvVar(<<>>), EnvVar(<<"1", ".", "2">>), EnvVar(<<" ", "1", ".", "2", "\n">>),
   EnvVar(<<" ">>)}

GithubShas ==
  {Unset, EnvVar(<<>>), EnvVar(<<"a", "b", "c", "d", "e", "f", "0", "1", "2">>),
   EnvVar(<<"9", "8", "7", "6", "5", "4", "3">>), EnvVar(<<"f", "e", "e", "d">>)}

\* execSync("git rev-parse --short HEAD"): it throws, or gives the id and a newline
GitRuns ==
  {[ok |-> FALSE, out |-> <<>>],
   [ok |-> TRUE, out |-> <<"a", "b", "c", "d", "e", "f", "0", "\n">>],
   [ok |-> TRUE, out |-> <<"1", "2", "3", "4", "5", "6", "7", "\n">>]}

VersionArgs == [app : AppVersions, sha : GithubShas, git : GitRuns]

\* the version returned, and the source it was taken from
Version(from, version) == [from |-> from, version |-> version]

\* resolveVersion asking for GITHUB_SHA before APP_VERSION
resolveVersionShaFirst(env) ==
  IF truthy(env.sha) THEN Version("GITHUB_SHA", sliceChars(env.sha.value, 7))
  ELSE IF truthy(env.app) THEN Version("APP_VERSION", trim(env.app.value))
  ELSE IF env.git.ok THEN Version("git", trim(env.git.out))
  ELSE Version("dev", <<"d", "e", "v">>)

resolveVersion(env) ==
  IF truthy(env.app) THEN Version("APP_VERSION", trim(env.app.value))
  ELSE IF truthy(env.sha) THEN Version("GITHUB_SHA", sliceChars(env.sha.value, 7))
  ELSE IF env.git.ok THEN Version("git", trim(env.git.out))
  ELSE Version("dev", <<"d", "e", "v">>)

ResolveVersionCall ==
  /\ ret.fn = "resolveVersion"
  /\ ~ret.done
  /\ ret' = Returned(resolveVersion(ret.arg))
  /\ UNCHANGED <<cfg, selectedProviders, searchInput, feed, feedEl, status, runs,
                 issued, lastWrite, events, call, session, now, scall, selectedMessage,
                 drafting, replyText, llmToken, store, sw,
                 socialConfig, timer>>

InitVersion == InitCall({Pending("resolveVersion", a) : a \in VersionArgs})

NextVersion == ResolveVersionCall

SpecVersion == InitVersion /\ [][NextVersion]_vars

(***************************************************************************)
(* The service worker: install and fetch events, the network's answers,    *)
(* and new versions put on the origin.                                     *)
(***************************************************************************)
MaxWorkerEvents == 3

MaxVersion == 2

Respond(w, url, version, from) ==
  [w EXCEPT !.served = [n |-> w.served.n + 1, url |-> url, version |-> version,
                        from |-> from]]

\* "install": caches.open(CACHE) makes the cache, and cache.addAll(ASSETS)
\* stores nothing unless every asset is fetched
Install(ok) ==
  /\ ~sw.installed
  /\ sw' = IF ok
           THEN [sw EXCEPT !.installed = TRUE, !.names = @ \cup {CACHE},
                           !.put = @ \cup {CACHE},
                           !.cache = [u \in Urls |-> IF u \in ASSETS THEN sw.origin[u]
                                                     ELSE @[u]]]
           ELSE [sw EXCEPT !.names = @ \cup {CACHE}]
  /\ UNCHANGED <<cfg, selectedProviders, searchInput, feed, feedEl, status, runs,
                 issued, lastWrite, events, call, session, now, scall, selectedMessage,
                 drafting, replyText, llmToken, store, ret,
                 socialConfig, timer>>

\* a new version of url is put on the origin
Deploy(url) ==
  /\ sw.origin[url] < MaxVersion
  /\ sw' = [sw EXCEPT !.origin[url] = @ + 1]
  /\ UNCHANGED <<cfg, selectedProviders, searchInput, feed, feedEl, status, runs,
                 issued, lastWrite, events, call, session, now, scall, selectedMessage,
                 drafting, replyText, llmToken, store, ret,
                 socialConfig, timer>>

\* the "fetch" listener for a request of url, up to the answer from the
\* cache or to the fetch from the network
onFetch(w, url, method) ==
  IF method # "GET" THEN w
  ELSE IF w.cache[url] # 0 THEN Respond(w, url, w.cache[url], "cache")
  ELSE [w EXCEPT !.inflight = @ \cup {url}]

FetchEvent(url, method, max) ==
  /\ sw.activated
  /\ events < max
  /\ events' = events + 1
  /\ sw' = onFetch(sw, url, method)
  /\ UNCHANGED <<cfg, selectedProviders, searchInput, feed, feedEl, status, runs,
                 issued, lastWrite, call, session, now, scall, selectedMessage,
                 drafting, replyText, llmToken, store, ret,
                 socialConfig, timer>>

\* fetch(request) settles: the response is put in the cache and returned,
\* or the catch returns cached, which is undefined
NetworkSettles(url, ok) ==
  /\ url \in sw.inflight
  /\ sw' = IF ok
           THEN [Respond(sw, url, sw.origin[url], "network")
                   EXCEPT !.cache[url] = sw.origin[url], !.inflight = @ \ {url},
                          !.names = @ \cup {CACHE}, !.put = @ \cup {CACHE}]
           ELSE [Respond(sw, url, 0, "error") EXCEPT !.inflight = @ \ {url}]
  /\ UNCHANGED <<cfg, selectedProviders, searchInput, feed, feedEl, status, runs,
                 issued, lastWrite, events, call, session, now, scall, selectedMessage,
                 drafting, replyText, llmToken, store, ret,
                 socialConfig, timer>>

\* another worker or script of the origin makes a cache under its own name
OtherCache(name) ==
  /\ name \notin sw.names
  /\ sw' = [sw EXCEPT !.names = @ \cup {name}]
  /\ UNCHANGED <<cfg, selectedProviders, searchInput, feed, feedEl, status, runs,
                 issued, lastWrite, events, call, session, now, scall, selectedMessage,
                 drafting, replyText, llmToken, store, ret,
                 socialConfig, timer>>

\* "activate", up to caches.keys()
ActivateStarts ==
  /\ sw.installed
  /\ ~sw.activating
  /\ ~sw.activated
  /\ sw' = [sw EXCEPT !.activating = TRUE, !.keys = sw.names]
  /\ UNCHANGED <<cfg, selectedProviders, searchInput, feed, feedEl, status, runs,
                 issued, lastWrite, events, call, session, now, scall, selectedMessage,
                 drafting, replyText, llmToken, store, ret,
                 socialConfig, timer>>

\* "activate" that deletes no cache
activateKeeps(keys, names) == names

\* the caches left by keys.filter((k) => k !== CACHE).map((k) => caches.delete(k))
activate(keys, names) == names \ {k \in keys : k # CACHE}

\* "activate" after caches.keys(): the deletions, then clients.claim()
ActivateDeletes ==
  /\ sw.activating
  /\ sw' = [sw EXCEPT !.activating = FALSE, !.activated = TRUE,
                       !.names = activate(sw.keys, @)]
  /\ UNCHANGED <<cfg, selectedProviders, searchInput, feed, feedEl, status, runs,
                 issued, lastWrite, events, call, session, now, scall, selectedMessage,
                 drafting, replyText, llmToken, store, ret,
                 socialConfig, timer>>

NextWorker ==
  \/ \E name \in OtherCaches : OtherCache(name)
  \/ ActivateStarts
  \/ ActivateDeletes
  \/ \E ok \in BOOLEAN : Install(ok)
  \/ \E url \in Urls : Deploy(url)
  \/ \E url \in Urls, method \in {"GET", "POST"} : FetchEvent(url, method, MaxWorkerEvents)
  \/ \E url \in Urls, ok \in BOOLEAN : NetworkSettles(url, ok)

InitWorker == InitCall({NoRet})

SpecWorker == InitWorker /\ [][NextWorker]_vars

(***************************************************************************)
(* The handlers that write to localStorage.                                *)
(***************************************************************************)
MaxStoreEvents == 2

\* click on "Add GIF": the prompts are answered, or one of them is cancelled
AddGif(entered, room, max) ==
  /\ events < max
  /\ events' = events + 1
  /\ store' = IF entered
              THEN saveGifs([handler(store) EXCEPT !.gifs = @ + 1], room)
              ELSE handler(store)
  /\ UNCHANGED <<cfg, selectedProviders, searchInput, feed, feedEl, status, runs,
                 issued, lastWrite, call, session, now, scall, selectedMessage,
                 drafting, replyText, llmToken, sw, ret,
                 socialConfig, timer>>

\* context menu on a GIF tile, and "Remove this GIF?" confirmed or not
RemoveGif(confirmed, room, max) ==
  /\ store.gifs > 0
  /\ events < max
  /\ events' = events + 1
  /\ store' = IF confirmed
              THEN saveGifs([handler(store) EXCEPT !.gifs = @ - 1], room)
              ELSE handler(store)
  /\ UNCHANGED <<cfg, selectedProviders, searchInput, feed, feedEl, status, runs,
                 issued, lastWrite, call, session, now, scall, selectedMessage,
                 drafting, replyText, llmToken, sw, ret,
                 socialConfig, timer>>

\* init() with localStorage working or not, and "sm_cache" there or not;
\* without localStorage the notice is put on the page and nothing is configured
InitStore ==
  /\ InitSearch(StoredConfigs({{}}))
  /\ Resting
  /\ socialConfig = FALSE
  /\ store \in {[NoStore EXCEPT !.available = a, !.cache = c, !.banner = ~a] :
                  a \in BOOLEAN, c \in BOOLEAN}
  /\ ret = NoRet

NextStore ==
  \/ \E id \in ProviderIds, v \in SUBSET {"bearerToken", "handle", "appPassword", "accessToken"},
        room \in Rooms : SaveCredentials(id, v, room, MaxStoreEvents)
  \/ \E token \in BOOLEAN, r1 \in Rooms, r2 \in Rooms :
       SaveSettings(token, r1, r2, MaxStoreEvents)
  \/ \E entered \in BOOLEAN, room \in Rooms : AddGif(entered, room, MaxStoreEvents)
  \/ \E confirmed \in BOOLEAN, room \in Rooms : RemoveGif(confirmed, room, MaxStoreEvents)

SpecStore == InitStore /\ [][NextStore]_vars

(***************************************************************************)
(* The configuration form on a page whose host may have set               *)
(* window.socialConfig before startup.                                     *)
(***************************************************************************)
MaxInjectedEvents == 2

\* cfg is what config() returns at startup: window.socialConfig when the host
\* set it, else what "sm_config" holds; an injecting host's page may hold an
\* older "sm_config" of its own
InitInjected ==
  /\ socialConfig \in BOOLEAN
  /\ InitSearch(StoredConfigs(SingleLoads))
  /\ Resting
  /\ store \in {Stored(c) : c \in IF socialConfig THEN StoredConfigs({{}, {"twitter"}})
                                                 ELSE {cfg}}
  /\ ret = NoRet

NextInjected ==
  \/ \E id \in ProviderIds : IsConfiguredCall(id)
  \/ \E id \in ProviderIds, v \in SUBSET {"bearerToken", "handle", "appPassword", "accessToken"},
        room \in Rooms : SaveCredentials(id, v, room, MaxInjectedEvents)
  \/ \E token \in BOOLEAN, presetsRoom \in Rooms, configRoom \in Rooms :
       SaveSettings(token, presetsRoom, configRoom, MaxInjectedEvents)

SpecInjected == InitInjected /\ [][NextInjected]_vars

(***************************************************************************)
(* The search box: el("searchInput") listens to "input" through debounce.  *)
(***************************************************************************)
\* debounce's default wait, in milliseconds
wait == 350

MaxDebounceEvents == 3

\* the time between two tasks of the page: a keystroke follows the previous
\* one at once, just inside the wait, or exactly the wait later
Gaps == {1, wait - 1, wait}

\* how long after it is due a timeout's callback runs
Lateness == {0, 1}

\* clearTimeout(t)
clearTimeout(pending, t) == {p \in pending : p.id # t}

\* the function debounce returns, keeping the timeouts set before
debounceKeeps(tm, value, at) ==
  [tm EXCEPT !.t = tm.t + 1,
             !.pending = @ \cup {[id |-> tm.t + 1, due |-> at + wait, value |-> value]}]

\* the function debounce returns, called at time at for an event whose
\* target holds value: clearTimeout(t); t = setTimeout(() => fn(...args), wait)
debounce(tm, value, at) ==
  [tm EXCEPT !.t = tm.t + 1,
             !.pending = clearTimeout(@, tm.t)
                           \cup {[id |-> tm.t + 1, due |-> at + wait, value |-> value]}]

\* an "input" event on the search box, gap after the page's previous task
SearchInputEvent(value, gap, max) ==
  /\ events < max
  /\ events' = events + 1
  /\ now' = now + gap
  /\ searchInput' = value
  /\ timer' = debounce(timer, value, now')
  /\ UNCHANGED <<cfg, selectedProviders, feed, feedEl, status, runs, issued, lastWrite,
                 call, session, scall, selectedMessage, drafting,
                 replyText, llmToken, store, sw, ret, socialConfig>>

\* the earliest pending timeout's callback runs, late after it is due (or
\* after now, if that is later): runSearch(e.target.value)
TimerFires(late) ==
  /\ \E p \in timer.pending :
       /\ \A q \in timer.pending : p.due <= q.due
       /\ now' = (IF now > p.due THEN now ELSE p.due) + late
       /\ timer' = [timer EXCEPT !.pending = @ \ {p}, !.fired = @ + 1,
                                  !.query = searchInput]
  /\ SetEngine(runSearch(cfg, selectedProviders, searchInput, engine))
  /\ UNCHANGED <<cfg, selectedProviders, searchInput, events, call, session, scall,
                 selectedMessage, drafting,
                 replyText, llmToken, store, sw, ret, socialConfig>>

NextDebounce ==
  \/ \E q \in Queries, gap \in Gaps : SearchInputEvent(q, gap, MaxDebounceEvents)
  \/ \E late \in Lateness : TimerFires(late)

\* a timeout that is due is run at some time
SpecDebounce ==
  Init /\ [][NextDebounce]_vars /\ WF_vars(\E late \in Lateness : TimerFires(late))

(***************************************************************************)
(* Properties.                                                             *)
(***************************************************************************)
Written == lastWrite.id # 0

WrittenSlot(id) == lastWrite.run.slots[id]

RECURSIVE PostsOf(_, _)
PostsOf(f, id) ==
  IF f = <<>> THEN <<>>
  ELSE IF Head(f).provider = id THEN <<Head(f)>> \o PostsOf(Tail(f), id)
       ELSE PostsOf(Tail(f), id)

AllDemo(posts) == \A i \in 1..Len(posts) : posts[i].isDemo

ResultStatus == status.kind \in {"live+demo", "Loaded", "demo posts"}

\* C1: when a provider that was configured had its adapter search fail, the
\* posts the search puts in the feed for it are all tagged isDemo, and a
\* search in which every adapter failed reports no live post in its status.
C1_FailedSearchPostsAreDemo ==
  Written =>
    /\ \A id \in lastWrite.run.active :
         (WrittenSlot(id).cfgAtStart /\ WrittenSlot(id).how = "fallback")
           => AllDemo(PostsOf(feed, id))
    /\ ((\A id \in lastWrite.run.active : WrittenSlot(id).how = "fallback")
          /\ ResultStatus)
         => status.live = 0

\* C2: a provider that is not configured when a search calls it contributes
\* only posts tagged isDemo, to the search's results and to the feed.
C2_UnconfiguredPostsAreDemo ==
  /\ Written =>
       \A id \in lastWrite.run.active :
         ~WrittenSlot(id).cfgAtStart => AllDemo(PostsOf(feed, id))
  /\ \A k \in DOMAIN runs : \A id \in runs[k].active :
       ~runs[k].slots[id].cfgAtStart => AllDemo(runs[k].slots[id].posts)

C2_Witness ==
  /\ Written
  /\ \E id \in lastWrite.run.active :
       ~WrittenSlot(id).cfgAtStart /\ PostsOf(feed, id) # <<>>

\* C3: a search that completes writes state.feed and the status only if no
\* newer search has been issued since it started.
C3_OnlyLatestSearchWrites ==
  [][lastWrite' # lastWrite => lastWrite'.id = issued']_vars

\* C4: in a feed written by runSearch no demo post precedes a post that is
\* not demo, and each of the two groups keeps the order of results.flat().
C4_DemoLastStable ==
  Written =>
    /\ \A i, j \in 1..Len(feed) : (i < j /\ feed[i].isDemo) => feed[j].isDemo
    /\ feed = SelectSeq(lastWrite.flat, NotDemo) \o SelectSeq(lastWrite.flat, IsDemo)

C4_Witness ==
  /\ Written
  /\ feed # lastWrite.flat
  /\ \E i, j \in 1..Len(feed) : feed[i].isDemo /\ ~feed[j].isDemo

\* C5: the feed is written by a search once, when every active provider's
\* call has settled, and then holds exactly each active provider's posts,
\* live or fallback, and no post of any other provider.
C5_FeedHoldsWholeSearch ==
  Written =>
    /\ lastWrite.id \notin DOMAIN runs
    /\ \A id \in ProviderIds :
         IF id \in lastWrite.run.active
         THEN /\ WrittenSlot(id).st = "settled"
              /\ PostsOf(feed, id) = WrittenSlot(id).posts
         ELSE PostsOf(feed, id) = <<>>

C5_Witness ==
  /\ Written
  /\ \E a, b \in lastWrite.run.active :
       /\ WrittenSlot(a).cfgAtStart /\ WrittenSlot(a).how = "fallback"
       /\ WrittenSlot(b).how = "live" /\ PostsOf(feed, b) # <<>>
       /\ PostsOf(feed, a) # <<>>

\* C6: after a search that ran with no active provider (status "Idle"),
\* state.feed holds no post and the feed element shows none.
C6_NoProviderSearchEmptiesFeed ==
  status.kind = "Idle" => (feed = <<>> /\ feedEl.cards = <<>>)

FailedOutcome(out) == out.kind = "reject" \/ ~resOk(out) \/ ~out.json

PostFailed ==
  \/ \E i \in 1..Len(call.got) : FailedOutcome(call.got[i])
  \/ call.id \notin providerClients
  \/ ~isConfigured(cfg, call.id)

\* C7: provider.post never raises: a call that met any failure (missing
\* credentials, a rejected fetch, a non-success status, an unreadable body)
\* ends with a result whose ok is false and whose error is a message.
C7_PostNeverRaises ==
  call.at = "done" =>
    /\ ~call.raised
    /\ PostFailed => (~call.result.ok /\ call.result.error.text # "")

C7_Witness ==
  /\ call.at = "done"
  /\ \E i \in 1..Len(call.got) : call.got[i].kind = "reject"
  /\ ~call.result.ok
  /\ call.result.error.text = "Failed to fetch"

\* C8: post on a provider id without a registered client returns exactly
\* { ok: false, error: "No provider client" }, raises nothing and sends no request.
C8_NoClientResult ==
  (call.n > 0 /\ call.id \notin providerClients) =>
    /\ call.at = "done"
    /\ ~call.raised
    /\ call.result = Failure("No provider client", 0)
    /\ call.sent = <<>>

C8_Witness == call.at = "done" /\ call.id = "mastodon"

\* C9: in the Threads publish, a non-success status S of the container
\* creation ends the call with ok = false and an error naming the creation
\* step and S, the publish request never having been sent.
C9_CreateFailureStops ==
  call.id = "threads" =>
    \A i \in 1..Len(call.got) :
      (call.sent[i] = "threads" /\ call.got[i].kind = "response" /\ ~resOk(call.got[i]))
        => /\ call.at = "done"
           /\ ~call.raised
           /\ call.result = Failure("Threads create", call.got[i].status)
           /\ \A j \in 1..Len(call.sent) : call.sent[j] # "threads_publish"

C9_Witness ==
  /\ call.id = "threads"
  /\ call.at = "done"
  /\ Len(call.got) = 2
  /\ call.got[2].status = 403

\* C10: in the Threads publish, when the creation succeeded and the publish
\* request gets a non-success status S, the call ends with ok = false and the
\* publish step's error with S, and no request follows the publish request.
C10_PublishFailureReported ==
  call.id = "threads" =>
    \A i \in 1..Len(call.got) :
      (call.sent[i] = "threads_publish" /\ call.got[i].kind = "response"
         /\ ~resOk(call.got[i]))
        => /\ call.at = "done"
           /\ ~call.raised
           /\ call.result = Failure("Threads publish", call.got[i].status)
           /\ call.sent = <<"me", "threads", "threads_publish">>
           /\ resOk(call.got[2])

C10_Witness ==
  /\ call.id = "threads"
  /\ call.at = "done"
  /\ Len(call.got) = 3
  /\ call.got[3].status = 500
  /\ ~call.result.ok

\* a step in which Bluesky's client is called with its credentials set
BlueskyPostCalled == call'.n # call.n /\ call'.id = "bluesky" /\ call'.configured

BlueskySearchCalled == scall'.n # scall.n /\ scall'.id = "bluesky" /\ scall'.configured

\* no session is cached, or the cached one has reached its expiry
NoUsableSession == ~session.set \/ now >= session.expiresAt

\* C11: a Bluesky search or post sends a createSession request exactly when
\* no session is cached or the cached session's expiry has been reached, the
\* login is the call's first request and its only one, and a session expires
\* one hour (3,600,000 ms) after the response that brought it.
C11_LoginExactlyWhenNoValidSession ==
  [][/\ BlueskyPostCalled =>
          ((call'.sent = <<"createSession">>) <=> NoUsableSession)
     /\ BlueskySearchCalled =>
          ((scall'.sent = <<"createSession">>) <=> NoUsableSession)
     /\ \A i \in 2..Len(call'.sent) : call'.sent[i] # "createSession"
     /\ \A i \in 2..Len(scall'.sent) : scall'.sent[i] # "createSession"
     /\ session' # session =>
          (session'.set /\ session'.expiresAt = now + 60 * 60 * 1000)
    ]_vars

C11_Witness ==
  /\ call.n = 2
  /\ call.id = "bluesky"
  /\ call.sent = <<"createRecord">>
  /\ session.set
  /\ now = session.expiresAt - 1

\* C12: overlapping Bluesky calls that find no usable session share one
\* login: at no time are two createSession requests in flight.
C12_OneLoginForOverlappingCalls ==
  ~(call.at = "createSession" /\ scall.at = "createSession")

\* p is a post of the demo catalogue as fallbackMock hands it out, tagged or not
IsFallbackPost(p) ==
  /\ p.provider \in ProviderIds
  /\ \E q \in Queries :
       \E i \in 1..Len(fallbackMock(p.provider, q)) :
         [fallbackMock(p.provider, q)[i] EXCEPT !.isDemo = p.isDemo] = p

\* C13: when the message selected for a publish is a demo fallback post, no
\* request of the post call carries a reply reference (in_reply_to_tweet_id,
\* reply_to_id, reply root/parent).
C13_DemoPostGivesNoReplyTarget ==
  (call.n > 0 /\ (call.msg.isDemo \/ IsFallbackPost(call.msg))) =>
    \A i \in 1..Len(call.body) : call.body[i] = NoReply

\* the url names a reply target for the provider: "status/<digits>" for
\* Twitter, "post/<digits>" for Threads
NamesTarget(id, url) ==
  /\ url.seg = (IF id = "twitter" THEN "status" ELSE "post")
  /\ url.tail # <<>>
  /\ Head(url.tail) \in {"0", "1", "2", "3", "4", "5", "6", "7", "8", "9"}

AllOk(got) == \A i \in 1..Len(got) : resOk(got[i]) /\ got[i].json

\* C14: a Twitter or Threads post whose selected message has a url that names
\* no reply target sends no reply reference and does not fail for it: with
\* credentials set and every response fine it publishes and returns ok.
C14_UnextractableTargetPostsTopLevel ==
  (call.id \in {"twitter", "threads"} /\ call.inReplyTo # NoUrl
     /\ ~NamesTarget(call.id, call.inReplyTo)) =>
    /\ \A i \in 1..Len(call.body) : call.body[i] = NoReply
    /\ ~call.raised
    /\ (call.at = "done" /\ call.configured /\ AllOk(call.got)) =>
         /\ call.result.ok
         /\ \E i \in 1..Len(call.sent) : call.sent[i] \in {"tweets", "threads"}

C14_Witness ==
  /\ call.id = "threads"
  /\ call.at = "done"
  /\ call.result.ok
  /\ call.inReplyTo.tail = <<"C", "1">>
  /\ call.sent = <<"me", "threads", "threads_publish">>

\* C17: after init the active providers are exactly the configured ones, and
\* a step changes the set only as a click on a configured provider's toggle
\* does: that one provider is added if absent, removed if present, and a
\* search is run.  Searching, selecting, drafting, posting and saving leave it.
C17_ActiveSetChangesOnlyByToggle ==
  /\ selectedProviders = {id \in ProviderIds : isConfigured(cfg, id)}
  /\ [][selectedProviders' # selectedProviders =>
          \E id \in ProviderIds :
            /\ isConfigured(cfg, id)
            /\ selectedProviders' = IF id \in selectedProviders
                                     THEN selectedProviders \ {id}
                                     ELSE selectedProviders \cup {id}
            /\ issued' = issued + 1
            /\ UNCHANGED <<cfg, call, selectedMessage, drafting>>
       ]_vars

C17_Witness ==
  /\ status.kind = "configured"
  /\ selectedProviders # {id \in ProviderIds : isConfigured(cfg, id)}
  /\ selectedProviders # {}

\* C20: when handlePost's call of provider.post ends, the status shows
\* "Posted to <provider>" if and only if the result's ok is true, and shows
\* the result's error message itself when ok is false.
C20_FailedPublishIsShown ==
  [][(call'.ui /\ call' # call /\ call'.at = "done") =>
       IF call'.result.ok
       THEN status' = Status("Posted to", 0, 0, {call'.id})
       ELSE /\ status'.kind # "Posted to"
            /\ status'.error = call'.result.error
            /\ status'.error.text # ""
    ]_vars

C20_Witness ==
  /\ call.ui
  /\ call.at = "done"
  /\ ~call.result.ok
  /\ status.error = call.result.error
  /\ status.error.status = 500

\* the primary request of a LinkedIn search failed: it was rejected or its
\* status was not a success
PrimaryFailed == scall.got # <<>> /\ (scall.got[1].kind = "reject" \/ ~resOk(scall.got[1]))

\* the items a search for query finds among items
Matching(items, query) ==
  SelectSeq(items, LAMBDA e : query = "" \/ toLowerCase(query) \in e.words)

\* C15: a LinkedIn search sends the feed request first and asks for the
\* user's own posts only after the feed request failed; whenever the feed
\* request failed the own-posts fallback is what it tries next; and the
\* fallback returns exactly the own posts that contain the query.
C15_LinkedInFallbackOnFailure ==
  (scall.id = "linkedin" /\ scall.sent # <<>>) =>
    /\ scall.sent[1] = "feed"
    /\ \A i \in 1..Len(scall.sent) :
         scall.sent[i] \in {"me", "ugcPosts"} => (i > 1 /\ PrimaryFailed)
    /\ PrimaryFailed => (Len(scall.sent) > 1 /\ scall.sent[2] = "me")
    /\ (scall.at = "done" /\ Len(scall.got) = 3 /\ AllOk(SubSeq(scall.got, 2, 3))) =>
         scall.posts = normalizePosts(Matching(ownElements, scall.query), "linkedin")

\* C16: no two posts of the feed have the same id.
C16_FeedIdsUnique ==
  \A i, j \in 1..Len(feed) : i # j => feed[i].id # feed[j].id

\* C18: a search or a post on a provider whose credentials are missing is
\* rejected without any request: the call is over at once, none sent, the
\* post with a failure result and the search with nothing from the service.
C18_UnconfiguredSendsNothing ==
  /\ (call.n > 0 /\ call.id \in ProviderIds /\ ~call.configured) =>
       /\ call.sent = <<>>
       /\ call.at = "done"
       /\ ~call.result.ok
       /\ call.result.error.text # ""
  /\ (scall.n > 0 /\ ~scall.configured) =>
       /\ scall.sent = <<>>
       /\ scall.at = "done"
       /\ scall.how = "fallback"

C18_Witness ==
  /\ call.id = "twitter"
  /\ ~call.configured
  /\ call.at = "done"
  /\ scall.id = "bluesky"
  /\ cfg["bluesky"] = {"handle"}
  /\ scall.at = "done"

Count(f, demo) == Cardinality({i \in 1..Len(f) : f[i].isDemo = demo})

\* C19: the status a completed search shows is the mixed one with both
\* counts when the feed holds live and demo posts, the live-only one when it
\* holds live posts only, the demo-only one when it holds no live post, and
\* the counts shown are the numbers of non-demo and of demo posts of the feed.
C19_StatusFollowsCounts ==
  ResultStatus =>
    LET live == Count(feed, FALSE)
        demo == Count(feed, TRUE)
    IN /\ status.kind = (IF live > 0 /\ demo > 0 THEN "live+demo"
                          ELSE IF live > 0 THEN "Loaded" ELSE "demo posts")
       /\ status.live = live
       /\ status.demo = demo

C19_Witness ==
  /\ status.kind = "live+demo"
  /\ status.live > 0
  /\ status.demo > 0

\* C21: state.selectedMessage changes only by the selection of a card of the
\* feed, to that card's post, or by the clear button, to none; searching,
\* posting, drafting and saving leave it, and a click on the post button
\* with no message selected starts no provider.post call.
C21_SelectionChangesOnlyBySelectOrClear ==
  [][/\ selectedMessage' # selectedMessage =>
          /\ \/ selectedMessage' = NoMessage
             \/ \E i \in 1..Len(feedEl.cards) : selectedMessage' = feedEl.cards[i]
          /\ events' = events + 1
          /\ UNCHANGED <<cfg, selectedProviders, feed, feedEl, runs, issued, call>>
     /\ (call'.ui /\ call'.n # call.n) =>
          (selectedMessage # NoMessage /\ call'.msg = selectedMessage)
    ]_vars

C21_Witness ==
  /\ selectedMessage # NoMessage
  /\ call.ui
  /\ call.at = "done"
  /\ call.msg = selectedMessage

NoRepeat(sent) == \A i, j \in 1..Len(sent) : sent[i] = sent[j] => i = j

\* C22: within one search call and one post call no request is sent twice,
\* so a request that failed is not sent again, and a search that failed
\* ends with exactly the demo posts of fallbackMock, every request answered.
C22_NoRequestRepeated ==
  /\ NoRepeat(call.sent)
  /\ NoRepeat(scall.sent)
  /\ (scall.at = "done" /\ scall.how = "fallback") =>
       /\ scall.posts = fallbackMock(scall.id, scall.query)
       /\ Len(scall.got) = Len(scall.sent)

C22_Witness ==
  /\ scall.at = "done"
  /\ scall.how = "fallback"
  /\ Len(scall.sent) = 2
  /\ FailedOutcome(scall.got[1])
  /\ FailedOutcome(scall.got[2])

\* C23: relativeTime of a date e milliseconds back is "just now" when
\* floor(e/60000) < 1, "<m>m" for m = floor(e/60000) < 60, "<h>h" for
\* h = floor(m/60) < 24, else "<d>d" for d = floor(h/24); 45 seconds give
\* "just now", 90 minutes "1h", 50 hours "2d", and no date "just now".
C23_RelativeTimeFloors ==
  (ret.fn = "relativeTime" /\ ret.done) =>
    LET e == ret.arg.elapsed
        m == e \div 60000
        h == m \div 60
        d == h \div 24
    IN /\ ret.arg.missing => ret.out = "just now"
       /\ (~ret.arg.missing /\ m < 1) => ret.out = "just now"
       /\ (~ret.arg.missing /\ m >= 1 /\ m < 60) => ret.out = ToString(m) \o "m"
       /\ (~ret.arg.missing /\ m >= 60 /\ h < 24) => ret.out = ToString(h) \o "h"
       /\ (~ret.arg.missing /\ h >= 24) => ret.out = ToString(d) \o "d"
       /\ (~ret.arg.missing /\ e = 45 * 1000) => ret.out = "just now"
       /\ (~ret.arg.missing /\ e = 90 * 60000) => ret.out = "1h"
       /\ (~ret.arg.missing /\ e = 50 * 3600000) => ret.out = "2d"

C23_Witness ==
  /\ ret.fn = "relativeTime"
  /\ ret.done
  /\ ~ret.arg.missing
  /\ ret.arg.elapsed = 50 * 3600000
  /\ ret.out = "2d"

Normalized == ret.fn = "normalizePosts" /\ ret.done

\* C24: normalizePosts(items, P) returns one post for each raw item, in the
\* items' order, each with provider P and with the raw item's uri, cid and
\* conversationId as they were.
C24_NormalizeKeepsOrderAndThreading ==
  Normalized =>
    /\ Len(ret.out) = Len(ret.arg.items)
    /\ \A i \in 1..Len(ret.arg.items) :
         /\ ret.out[i].provider = ret.arg.provider
         /\ ret.out[i].uri = ret.arg.items[i].uri
         /\ ret.out[i].cid = ret.arg.items[i].cid
         /\ ret.out[i].conversationId = ret.arg.items[i].conversationId
         /\ ret.arg.items[i].id # "" => ret.out[i].id = ret.arg.items[i].id

C24_Witness ==
  /\ Normalized
  /\ Len(ret.arg.items) = 2
  /\ ret.arg.items[1].id = ""
  /\ ret.arg.items[1].uri # ""
  /\ ret.arg.items[2].conversationId # ""
  /\ ret.out[2].conversationId = ret.arg.items[2].conversationId

\* the first of the values that is there, else the default
RECURSIVE FirstPresent(_, _, _)
FirstPresent(values, falsy, default) ==
  IF values = <<>> THEN default
  ELSE IF Head(values) # falsy THEN Head(values)
  ELSE FirstPresent(Tail(values), falsy, default)

\* C25: normalizePosts returns a post for every raw item whatever it lacks:
\* the author is the first present of author, user, username, else "Unknown";
\* the text is text, then body, else empty; the time is the item's, else
\* "just now"; the url is url, then permalink, then link, else "#".
C25_NormalizeDefaults ==
  Normalized =>
    /\ Len(ret.out) = Len(ret.arg.items)
    /\ \A i \in 1..Len(ret.arg.items) :
         LET item == ret.arg.items[i]
         IN /\ ret.out[i].author =
                 FirstPresent(<<item.author, item.user, item.username>>, "", "Unknown")
            /\ ret.out[i].words = FirstPresent(<<item.words, item.body>>, {}, {})
            /\ ret.out[i].time = FirstPresent(<<item.time>>, "", "just now")
            /\ ret.out[i].url =
                 FirstPresent(<<item.url, item.permalink, item.link>>, NoUrl, HashUrl)

C25_Witness ==
  /\ Normalized
  /\ Len(ret.arg.items) = 2
  /\ ret.arg.items[1] = NoRaw
  /\ ret.out[1].author = "Unknown"
  /\ ret.out[1].url = HashUrl
  /\ ret.out[1].time = "just now"
  /\ ret.arg.items[2].author = ""
  /\ ret.arg.items[2].user = ""
  /\ ret.out[2].author = ret.arg.items[2].username
  /\ ret.out[2].url = ret.arg.items[2].link

C27_FailedWriteWarns ==
  store.failed # {} => (store.alerted # {} \/ store.banner)

RECURSIVE TextLen(_)
TextLen(text) == IF text = <<>> THEN 0 ELSE Head(text).n + TextLen(Tail(text))

\* echo is the beginning of text: its pieces are text's, the last one cut or whole
StartsWith(text, echo) ==
  /\ Len(echo) <= Len(text)
  /\ \A i \in 1..Len(echo) :
       /\ echo[i].s = text[i].s
       /\ IF i < Len(echo) THEN echo[i].n = text[i].n ELSE echo[i].n <= text[i].n

IsFallbackText(text) ==
  /\ text.kind = "fallback"
  /\ TextLen(text.echo) = 60

\* C28: a draft that ends without the model's text (no token set, fetch
\* rejected, status not ok, body not JSON, no content) leaves in the reply
\* the fallback made of the first 60 characters of its prompt, every draft
\* that ends sets the status to "Ready", and the reply never holds anything
\* but nothing, the model's text or a fallback.
C28_DraftAlwaysFillsReply ==
  [][/\ (Len(drafting') < Len(drafting)) =>
          /\ status'.kind = "Ready"
          /\ replyText'.kind \in {"model", "fallback"}
          /\ replyText'.kind = "fallback" =>
               /\ IsFallbackText(replyText')
               /\ \E i \in 1..Len(drafting) : StartsWith(drafting[i].prompt, replyText'.echo)
     /\ (Len(drafting') = Len(drafting) /\ replyText' # replyText
           /\ replyText' # NoText) =>
          /\ ~llmToken
          /\ status'.kind = "Ready"
          /\ IsFallbackText(replyText')
          /\ StartsWith(buildPrompt(selectedMessage'), replyText'.echo)
     /\ (Len(drafting') > Len(drafting)) => (llmToken /\ status'.kind = "Drafting")
    ]_vars

C28_Witness ==
  /\ IsFallbackText(replyText)
  /\ replyText.gif = "picked"
  /\ llmToken
  /\ drafting = <<>>
  /\ status.kind = "Ready"
  /\ selectedMessage.provider = "linkedin"

\* C29: a GET request that has an entry in the cache is answered with that
\* entry and a fetch of the same address from the network is started, whose
\* response will replace the entry.
C29_StaleWhileRevalidate ==
  [][(sw'.served.n = sw.served.n + 1 /\ sw'.served.from = "cache") =>
       /\ sw'.served.version = sw.cache[sw'.served.url]
       /\ sw'.served.url \in sw'.inflight
    ]_vars

Resolved == ret.fn = "resolveVersion" /\ ret.done

\* a variable is set when it holds a value that is not empty
IsSet(v) == v.set /\ Len(v.value) > 0

\* C30: resolveVersion returns APP_VERSION when it is set; else the first 7
\* characters of GITHUB_SHA when that is set; else the id git prints; and
\* "dev" only when neither is set and git fails.
C30_VersionPriority ==
  Resolved =>
    LET env == ret.arg
        out == ret.out
    IN /\ IsSet(env.app) => (out.from = "APP_VERSION" /\ out.version = trim(env.app.value))
       /\ (~IsSet(env.app) /\ IsSet(env.sha)) =>
            /\ out.from = "GITHUB_SHA"
            /\ Len(out.version) <= 7
            /\ Len(out.version) = 7 \/ Len(out.version) = Len(env.sha.value)
            /\ \A i \in 1..Len(out.version) : out.version[i] = env.sha.value[i]
       /\ (~IsSet(env.app) /\ ~IsSet(env.sha) /\ env.git.ok) =>
            /\ out.from = "git"
            /\ out.version \o <<"\n">> = env.git.out
       /\ out.from = "dev" <=> (~IsSet(env.app) /\ ~IsSet(env.sha) /\ ~env.git.ok)
       /\ out.from = "dev" => out.version = <<"d", "e", "v">>

C30_Witness ==
  /\ Resolved
  /\ ~ret.arg.app.set
  /\ Len(ret.arg.sha.value) = 9
  /\ ret.arg.git.ok
  /\ ret.out.from = "GITHUB_SHA"
  /\ Len(ret.out.version) = 7

\* C31: a Bluesky call made under the credentials stored now sends the
\* request that carries the session (createRecord of a post, searchPosts of
\* a search) with a session that was obtained with these credentials.
C31_SessionOfStoredCredentials ==
  [][/\ (/\ Len(call'.sent) > Len(call.sent)
         /\ call'.at = "createRecord"
         /\ call'.creds = store'.edition) => session'.creds = store'.edition
     /\ (/\ Len(scall'.sent) > Len(scall.sent)
         /\ scall'.at = "searchPosts"
         /\ scall'.creds = store'.edition) => session'.creds = store'.edition
    ]_vars

\* C32: the record a Bluesky post creates replies to the message that was
\* selected when the post button was clicked, whatever is selected or
\* cleared while the login is in flight.
C32_ReplyToMessageSelectedAtClick ==
  \A i \in 1..Len(call.sent) :
    (call.id = "bluesky" /\ call.ui /\ call.sent[i] = "createRecord") =>
      call.body[i] = blueskyReply(call.inReplyTo, call.msg)

\* C33: the posts an adapter returned live are not tagged isDemo, in the
\* results of a search and in the feed it writes, whatever was saved to the
\* configuration while the search was in flight.
C33_LivePostsNeverDemo ==
  /\ \A k \in DOMAIN runs : \A id \in runs[k].active :
       runs[k].slots[id].how = "live" =>
         \A i \in 1..Len(runs[k].slots[id].posts) : ~runs[k].slots[id].posts[i].isDemo
  /\ Written =>
       \A id \in lastWrite.run.active :
         WrittenSlot(id).how = "live" =>
           /\ \A i \in 1..Len(WrittenSlot(id).posts) : ~WrittenSlot(id).posts[i].isDemo
           /\ \A i \in 1..Len(feed) : feed[i].provider = id => ~feed[i].isDemo

\* C34: in every reachable state every active provider is configured, which
\* is when renderProviders draws its toggle: no provider stays in
\* state.selectedProviders without a toggle to deactivate it, also after a
\* configuration save that removes its credentials.
C34_ActiveProvidersHaveToggle ==
  \A id \in selectedProviders : isConfigured(cfg, id)

\* C35: after a provider's configuration form is submitted and the save
\* succeeds, config() holds the saved values for that provider, so
\* isConfigured and the adapter calls read them, also when the host injected
\* window.socialConfig before startup.
C35_SavedCredentialsTakeEffect ==
  (status.kind = "configured" /\ "sm_config" \notin store.failed) =>
    \A id \in status.who :
      /\ cfg[id] = store.config[id]
      /\ isConfigured(cfg, id) = isConfigured(store.config, id)

\* C36: a step changes a provider's entry of the stored configuration, or of
\* what config() returns, only as the submit of that provider's own
\* configuration form: the form of another provider and the settings dialog
\* leave the entry as it was.
C36_SaveLeavesOtherProviders ==
  [][\A id \in ProviderIds :
       (store'.config[id] # store.config[id] \/ cfg'[id] # cfg[id]) =>
         (status'.kind = "configured" /\ status'.who = {id})]_vars

C38_ActivateKeepsOnlyOwnCache ==
  /\ [][(sw.activating /\ sw'.activated) =>
          /\ sw'.names \cap sw.keys \subseteq {CACHE}
          /\ CACHE \in sw.names => CACHE \in sw'.names]_vars
  /\ [](sw.put \subseteq {CACHE})
  /\ [](sw.cache # NoWorker.cache => CACHE \in sw.names)

C38_Witness ==
  /\ sw.activated
  /\ "social-manager-1" \in sw.keys
  /\ "social-manager-1" \notin sw.names
  /\ sw.served.from = "network"
  /\ sw.put = {CACHE}
  /\ sw.names = {CACHE}

====
